---- MODULE Spec2Model ----
(***************************************************************************)
(* Argument marshalling engine of the C-API bridge (ext/Python/getargs.cpp) *)
(* together with the buffer protocol entry points it relies on             *)
(* (ext/Objects/abstract.cpp).                                             *)
(*                                                                         *)
(* A format string is a sequence of one-character strings.  A binding call *)
(* threads a context record cx through the conversion functions; cx holds  *)
(* everything a call reads or writes: the format cursor, the va_list       *)
(* cursor, the caller's output slots, the cleanup list, the native heap,   *)
(* the reference counts and the thread's pending error.                    *)
(*                                                                         *)
(* Three specifications share the module.  Spec runs the binding entry     *)
(* points.  HandleSpec runs the handle table with PyObject_GetItem and the *)
(* buffer entry points against a native heap.  QuerySpec runs the length   *)
(* queries and the addition fast path.                                     *)
(***************************************************************************)
EXTENDS Integers, Sequences, FiniteSets, TLC

(***************************************************************************)
(* Program constants                                                       *)
(***************************************************************************)
FLAG_COMPAT == 1
FLAG_SIZE_T == 2
STATIC_FREELIST_ENTRIES == 8
MaxNesting == 30

(***************************************************************************)
(* Bounds of the model                                                     *)
(***************************************************************************)
MaxArgs == 4
\* width in bits of the C int of the model; sizes and values scale with it
IntBits == 5

INT_MAX == 2 ^ (IntBits - 1) - 1
INT_MIN == 0 - INT_MAX - 1

\* the widths of char, short and long (long long, Py_ssize_t) relative to int
CharBits == IntBits - 2
ShortBits == IntBits - 1
LongBits == IntBits + 1

UCHAR_MAX == 2 ^ CharBits - 1
SHRT_MAX == 2 ^ (ShortBits - 1) - 1
SHRT_MIN == 0 - SHRT_MAX - 1
LONG_MAX == 2 ^ (LongBits - 1) - 1
LONG_MIN == 0 - LONG_MAX - 1

\* an allocation budget b lets the first b allocations of a call succeed
MaxBudget == 1

\* the allocation budget meaning "no allocation fails"
NoFail == 0 - 1

(***************************************************************************)
(* Managed objects that cross the bridge as arguments.                     *)
(***************************************************************************)
ObjInfo ==
  [ I5    |-> [kind |-> "int",   val |-> 5,  len |-> 0, nul |-> FALSE, items |-> <<>>],
    SAB   |-> [kind |-> "str",   val |-> 0,  len |-> 2, nul |-> FALSE, items |-> <<"CH", "CH">>],
    SHUGE |-> [kind |-> "str",   val |-> 0,  len |-> INT_MAX + 1, nul |-> FALSE, items |-> <<>>],
    BXY   |-> [kind |-> "bytes", val |-> 0,  len |-> 2, nul |-> FALSE, items |-> <<>>],
    T2    |-> [kind |-> "tuple", val |-> 0,  len |-> 2, nul |-> FALSE, items |-> <<"I5", "BXY">>],
    CH    |-> [kind |-> "str",   val |-> 0,  len |-> 1, nul |-> FALSE, items |-> <<"CH">>],
    ENC   |-> [kind |-> "bytes", val |-> 0,  len |-> 0, nul |-> FALSE, items |-> <<>>],
    WB    |-> [kind |-> "wbuf",  val |-> 0,  len |-> 4, nul |-> FALSE, items |-> <<>>],
    IOVER |-> [kind |-> "int",   val |-> INT_MAX + 1, len |-> 0, nul |-> FALSE, items |-> <<>>],
    INEG  |-> [kind |-> "int",   val |-> 0 - 1, len |-> 0, nul |-> FALSE, items |-> <<>>],
    IBIG  |-> [kind |-> "int",   val |-> 2 ^ LongBits + 1, len |-> 0, nul |-> FALSE,
               items |-> <<>>],
    F1    |-> [kind |-> "float", val |-> 1,  len |-> 0, nul |-> FALSE, items |-> <<>>],
    SNUL  |-> [kind |-> "str",   val |-> 0,  len |-> 3, nul |-> TRUE,
               items |-> <<"CH", "CH", "CH">>],
    BNUL  |-> [kind |-> "bytes", val |-> 0,  len |-> 3, nul |-> TRUE, items |-> <<>>],
    TII   |-> [kind |-> "tuple", val |-> 0,  len |-> 2, nul |-> FALSE, items |-> <<"I5", "I5">>],
    TSI   |-> [kind |-> "tuple", val |-> 0,  len |-> 2, nul |-> FALSE, items |-> <<"SAB", "I5">>],
    TIC   |-> [kind |-> "tuple", val |-> 0,  len |-> 2, nul |-> FALSE, items |-> <<"I5", "CH">>],
    T3    |-> [kind |-> "tuple", val |-> 0,  len |-> 3, nul |-> FALSE,
               items |-> <<"I5", "I5", "I5">>],
    TN    |-> [kind |-> "tuple", val |-> 0,  len |-> 2, nul |-> FALSE, items |-> <<"TII", "I5">>],
    USEQ  |-> [kind |-> "userseq", val |-> 0, len |-> 2, nul |-> FALSE, items |-> <<>>],
    UEXP  |-> [kind |-> "exporter", val |-> 0, len |-> 0, nul |-> FALSE, items |-> <<>>],
    TMANY |-> [kind |-> "tuple", val |-> 0, len |-> STATIC_FREELIST_ENTRIES + 1,
               nul |-> FALSE,
               items |-> [j \in 1 .. STATIC_FREELIST_ENTRIES + 1 |-> "BXY"]] ]

Objs == {"I5", "SAB", "SHUGE", "BXY", "T2", "WB"}
KwObjs == {"I5", "SAB"}
KwVals == {"I5", "SAB"}
KwNames == {"a", "b", "x"}

AllObjs == DOMAIN ObjInfo

NullObj == "NULL"

Kind(o) == ObjInfo[o].kind

(***************************************************************************)
(* Characters                                                              *)
(***************************************************************************)
NUL == "NUL"

At(f, p) == IF p >= 1 /\ p <= Len(f) THEN f[p] ELSE NUL

Letters ==
  {"a", "b", "c", "d", "e", "f", "g", "h", "i", "j", "k", "l", "m", "n", "o",
   "p", "q", "r", "s", "t", "u", "v", "w", "x", "y", "z",
   "A", "B", "C", "D", "E", "F", "G", "H", "I", "J", "K", "L", "M", "N", "O",
   "P", "Q", "R", "S", "T", "U", "V", "W", "X", "Y", "Z"}

Py_ISALPHA(c) == c \in Letters

IS_END_OF_FORMAT(c) == c = NUL \/ c = ";" \/ c = ":"

Py_MIN(x, y) == IF x < y THEN x ELSE y

\* a local variable: v is computed once and named in F
With(v, F(_)) == F(v)

(***************************************************************************)
(* Pending error of the thread                                             *)
(***************************************************************************)
\* type and text of the exception; a, b: the numbers formatted into the text;
\* path: the ", item %d" numbers; ma, mb: the numbers of the conversion
\* message that seterror copies into the text
NoErr ==
  [type |-> "none", text |-> "", a |-> 0, b |-> 0, path |-> <<>>, ma |-> 0, mb |-> 0]

Err(type, text, a, b) ==
  [type |-> type, text |-> text, a |-> a, b |-> b, path |-> <<>>, ma |-> 0, mb |-> 0]

PyErr_Occurred(cx) == cx.err.type # "none"

raiseWithFmt(cx, e) ==
  [cx EXCEPT !.err = e,
             !.replaced = @ \/ cx.err.type # "none",
             !.raises = @ + 1]

PyErr_Clear(cx) == [cx EXCEPT !.err = NoErr]

\* an exception raised by user-level code the bridge calls; cx.user keeps
\* what was raised
UserRaise(cx, text, a) ==
  [raiseWithFmt(cx, Err("UserError", text, a, 0))
     EXCEPT !.user = Append(@, Err("UserError", text, a, 0))]

Py_FatalError(cx, why) == [cx EXCEPT !.abort = why]

(***************************************************************************)
(* Conversion messages (the const char* results of the convert functions)  *)
(***************************************************************************)
NullMsg == [null |-> TRUE, paren |-> FALSE, expected |-> "", actual |-> "", a |-> 0, b |-> 0]

Msg(paren, expected, actual) ==
  [null |-> FALSE, paren |-> paren, expected |-> expected, actual |-> actual,
   a |-> 0, b |-> 0]

MsgN(expected, actual, a, b) ==
  [null |-> FALSE, paren |-> FALSE, expected |-> expected, actual |-> actual,
   a |-> a, b |-> b]

\* RETURN_ERR_OCCURRED hands back msgbuf as it stands
MsgBuf == Msg(FALSE, "<msgbuf>", "")

ParenMsgs ==
  {"(unicode conversion error)", "(cleanup problem)", "(unspecified)",
   "(unknown parser marker combination)", "(buffer is nullptr)",
   "(AsCharBuffer failed)", "(encoding failed)", "(buffer_len is nullptr)",
   "(invalid use of 'w' format character)", "(impossible<bad format char>)"}

converterr(expected, arg) ==
  IF expected \in ParenMsgs
    THEN Msg(TRUE, expected, "")
    ELSE Msg(FALSE, expected, Kind(arg))

(***************************************************************************)
(* Native heap, reference counts                                           *)
(***************************************************************************)
PyMem_NEW(cx) ==
  IF cx.budget = 0
    THEN [cx |-> cx, p |-> 0]
    ELSE [cx |-> [cx EXCEPT !.heap = @ \cup {cx.nextptr},
                            !.nextptr = @ + 1,
                            !.allocs = @ + 1,
                            !.budget = IF @ = NoFail THEN NoFail ELSE @ - 1],
          p |-> cx.nextptr]

PyMem_FREE(cx, p) ==
  [cx EXCEPT !.heap = @ \ {p}, !.freed = Append(@, p)]

Py_INCREF(cx, o) == [cx EXCEPT !.ref[o] = @ + 1]

Py_DECREF(cx, o) == [cx EXCEPT !.ref[o] = @ - 1]

\* what an output slot holds: a tag, the object it refers to, the heap block
\* it points to (0: none) and an integer value
OutVal(t, obj, p, v) == [t |-> t, obj |-> obj, p |-> p, v |-> v]

Store(cx, slot, v) == [cx EXCEPT !.out = (slot :> v) @@ @]

(***************************************************************************)
(* Buffer protocol                                                         *)
(***************************************************************************)
PyBUF_SIMPLE == 0
PyBUF_WRITABLE == 1

PyBuffer_FillInfo(cx, view, exporter, len, readonly, flags) ==
  IF flags = PyBUF_WRITABLE /\ readonly = 1
    THEN [cx |-> raiseWithFmt(cx, Err("BufferError", "Object is not writable.", 0, 0)),
          rc |-> -1]
    ELSE LET c1 == IF exporter # NullObj THEN Py_INCREF(cx, exporter) ELSE cx
         IN [cx |-> Store(c1, view, OutVal("view", exporter, 0, len)),
             rc |-> 0]

PyBuffer_Release(cx, view) ==
  LET v == cx.out[view] IN
  IF v.obj = NullObj
    THEN cx
    ELSE Py_DECREF(Store(cx, view, [v EXCEPT !.obj = NullObj]), v.obj)

raiseBufferError(cx, obj) ==
  raiseWithFmt(cx, Err("TypeError", "a bytes-like object is required", 0, 0))

PyObject_GetBuffer(cx, obj, view, flags) ==
  CASE Kind(obj) = "bytes" ->
         PyBuffer_FillInfo(cx, view, obj, ObjInfo[obj].len, 1, flags)
    [] Kind(obj) = "wbuf" ->
         PyBuffer_FillInfo(cx, view, obj, ObjInfo[obj].len, 0, flags)
    [] Kind(obj) = "exporter" ->
         \* the bf_getbuffer slot of a user type, which raises
         [cx |-> UserRaise(cx, "raised by bf_getbuffer", 0), rc |-> -1]
    [] OTHER -> [cx |-> raiseBufferError(cx, obj), rc |-> -1]

\* FillInfo leaves strides and suboffsets null for the flags used here, and
\* isContiguousWithRowMajorOrder answers true for such a view
PyBuffer_IsContiguous(cx, view) == cx.out[view].t = "view"

getbuffer(cx, arg, view) ==
  With(PyObject_GetBuffer(cx, arg, view, PyBUF_SIMPLE), LAMBDA g :
    IF g.rc # 0
      THEN [cx |-> g.cx, rc |-> -1, errmsg |-> "bytes-like object"]
      ELSE IF ~PyBuffer_IsContiguous(g.cx, view)
             THEN [cx |-> PyBuffer_Release(g.cx, view), rc |-> -1,
                   errmsg |-> "contiguous buffer"]
             ELSE [cx |-> g.cx, rc |-> 0, errmsg |-> ""])

\* the local Py_buffer of convertbuffer lives in scratch slot 0
convertbuffer(cx, arg, p) ==
  With(getbuffer(Store(cx, p, OutVal("ptr", NullObj, 0, 0)), arg, 0), LAMBDA g :
    IF g.rc < 0
      THEN [cx |-> g.cx, count |-> -1, errmsg |-> g.errmsg]
      ELSE [cx |-> PyBuffer_Release(
                     Store(g.cx, p, OutVal("ptr", arg, 0, 0)), 0),
            count |-> g.cx.out[0].v, errmsg |-> ""])

(***************************************************************************)
(* Cleanup list                                                            *)
(***************************************************************************)
cleanup_ptr(cx, ptr) ==
  IF ptr # 0 THEN PyMem_FREE(cx, ptr) ELSE cx

cleanup_buffer(cx, ptr) == PyBuffer_Release(cx, ptr)

\* Variant for C6: the entry is not recorded.
addcleanup_lost(cx, ptr, destructor) == cx

Py_CLEANUP_SUPPORTED == 131072

\* The converter a caller passes with "O&": user code.  It takes an int,
\* stores it at addr and returns 1, or Py_CLEANUP_SUPPORTED when the site's
\* converter holds a resource; it refuses anything else with an exception
\* of its own and returns 0.  Called with a null object it releases what
\* addr holds.  cx.convcalls records the calls.
converter(cx0, arg, addr) ==
  LET cx == [cx0 EXCEPT !.convcalls = Append(@, [arg |-> arg, addr |-> addr])] IN
  IF arg = NullObj
    THEN [cx |-> Store(cx, addr, OutVal("released", NullObj, 0, 0)), res |-> 0]
  ELSE IF Kind(arg) # "int"
    THEN [cx |-> UserRaise(cx, "raised by the converter", 0), res |-> 0]
    ELSE [cx |-> Store(cx, addr, OutVal("converted", arg, 0, 0)),
          res |-> IF cx.conv = "cleanup" THEN Py_CLEANUP_SUPPORTED ELSE 1]

addcleanup(cx, ptr, destructor) ==
  [cx EXCEPT !.fl = Append(@, [item |-> ptr, destructor |-> destructor])]

CallDestructor(cx, e) ==
  LET c1 == [cx EXCEPT !.inv = Append(@, e)] IN
  CASE e.destructor = "cleanup_ptr" -> cleanup_ptr(c1, e.item)
    [] e.destructor = "cleanup_buffer" -> cleanup_buffer(c1, e.item)
    [] e.destructor = "converter" -> converter(c1, NullObj, e.item).cx
    [] OTHER -> c1

\* Variant for C4: the entries are run last-registered first.
RECURSIVE RunDestructors_backwards(_, _)
RunDestructors_backwards(cx, index) ==
  IF index <= Len(cx.fl)
    THEN RunDestructors_backwards(CallDestructor(cx, cx.fl[Len(cx.fl) + 1 - index]),
                                  index + 1)
    ELSE cx

RECURSIVE RunDestructors(_, _)
RunDestructors(cx, index) ==
  IF index <= Len(cx.fl)
    THEN RunDestructors(CallDestructor(cx, cx.fl[index]), index + 1)
    ELSE cx

\* Variant for C1: the destructors run whatever the result is.
cleanreturn_always(retval, cx) ==
  With(RunDestructors(cx, 1), LAMBDA c1 :
    [(IF c1.malloced # 0 THEN PyMem_FREE(c1, c1.malloced) ELSE c1)
       EXCEPT !.ret = retval])

cleanreturn(retval, cx) ==
  With(IF retval = 0 THEN RunDestructors(cx, 1) ELSE cx, LAMBDA c1 :
    [(IF c1.malloced # 0 THEN PyMem_FREE(c1, c1.malloced) ELSE c1)
       EXCEPT !.ret = retval])

(***************************************************************************)
(* Runtime helpers the conversions call                                    *)
(***************************************************************************)
PyLong_Check(arg) == Kind(arg) = "int"

\* the value of an int that fits a long; OverflowError and -1 otherwise
PyLong_AsLong(cx, arg) ==
  IF Kind(arg) # "int"
    THEN [cx |-> raiseWithFmt(cx, Err("TypeError", "an integer is required", 0, 0)),
          ival |-> -1]
  ELSE IF ObjInfo[arg].val > LONG_MAX \/ ObjInfo[arg].val < LONG_MIN
    THEN [cx |-> raiseWithFmt(cx, Err("OverflowError",
                     "Python int too large to convert to C long", 0, 0)),
          ival |-> -1]
    ELSE [cx |-> cx, ival |-> ObjInfo[arg].val]

\* long long and Py_ssize_t have the width of long
PyLong_AsLongLong(cx, arg) == PyLong_AsLong(cx, arg)

PyLong_AsSsize_t(cx, arg) == PyLong_AsLong(cx, arg)

\* the low bits of the value as an unsigned number of the given width
Mask(v, bits) == v % (2 ^ bits)

\* the value reduced modulo ULONG_MAX + 1, whatever its size or sign
PyLong_AsUnsignedLongMask(cx, arg) ==
  IF Kind(arg) # "int"
    THEN [cx |-> raiseWithFmt(cx, Err("TypeError", "an integer is required", 0, 0)),
          ival |-> -1]
    ELSE [cx |-> cx, ival |-> Mask(ObjInfo[arg].val, LongBits)]

PyLong_AsUnsignedLongLongMask(cx, arg) == PyLong_AsUnsignedLongMask(cx, arg)

\* the int itself as a new reference; TypeError for a value without __index__
PyNumber_Index(cx, arg) ==
  IF Kind(arg) = "int"
    THEN [cx |-> Py_INCREF(cx, arg), iobj |-> arg]
    ELSE [cx |-> raiseWithFmt(cx, Err("TypeError",
                     "object cannot be interpreted as an integer", 0, 0)),
          iobj |-> NullObj]

float_argument_error(cx, arg) ==
  IF Kind(arg) = "float"
    THEN [cx |-> raiseWithFmt(cx, Err("TypeError",
                     "integer argument expected, got float", 0, 0)), rc |-> 1]
    ELSE [cx |-> cx, rc |-> 0]

PyUnicode_Check(arg) == Kind(arg) = "str"

PyBytes_Check(arg) == Kind(arg) = "bytes"

PyByteArray_Check(arg) == Kind(arg) = "bytearray"

\* Runtime::isSequence: the types with sequence behaviour; str and bytes are
\* among them, a tuple position has to exclude them itself
isSequence(arg) ==
  Kind(arg) \in {"tuple", "list", "str", "bytes", "bytearray", "userseq"}

PySequence_Check(arg) == isSequence(arg)

PySequence_Size(arg) == ObjInfo[arg].len

PyType_IsSubtype(arg, type) == Kind(arg) = type

\* Variant for C17: the terminator inside the data is not seen.
strlen_full(arg) == ObjInfo[arg].len

\* strlen() of the character data of a str or bytes object
strlen(arg) == IF ObjInfo[arg].nul THEN ObjInfo[arg].len - 1 ELSE ObjInfo[arg].len

Py_UNICODE_strlen(arg) == strlen(arg)

\* a new bytes object holding the encoded text: one reference, owned by the caller
PyUnicode_AsEncodedString(cx, arg) == Py_INCREF(cx, "ENC")

(***************************************************************************)
(* convertsimple                                                           *)
(***************************************************************************)
Ok(cx, fp) == [cx |-> cx, msg |-> NullMsg, fp |-> fp]

Fail(cx, msg) == [cx |-> cx, msg |-> msg, fp |-> 0]

va_arg(cx) == [cx EXCEPT !.va = @ + 1]

\* STORE_SIZE(s) into the size slot q: ok is FALSE when the macro returns
STORE_SIZE(cx, q, s, arg) ==
  IF cx.sizet
    THEN [cx |-> Store(cx, q, OutVal("size", NullObj, 0, s)), ok |-> TRUE]
    ELSE IF INT_MAX < s
           THEN [cx |-> raiseWithFmt(cx, Err("OverflowError",
                            "size does not fit in an int", 0, 0)),
                 ok |-> FALSE]
           ELSE [cx |-> Store(cx, q, OutVal("size", NullObj, 0, s)), ok |-> TRUE]

\* the end of a '#' form: STORE_SIZE(s), then the item is done
StoreSizeAndReturn(cx, q, s, arg, fp) ==
  With(STORE_SIZE(cx, q, s, arg), LAMBDA st :
    IF st.ok THEN Ok(st.cx, fp) ELSE Fail(st.cx, converterr("", arg)))

\* Variant for C3: the item is accepted and its output is left unwritten.
convert_i_unwritten(cx0, arg, fp) == Ok(va_arg(cx0), fp)

\* case 'i'
convert_i(cx0, arg, fp) ==
  LET cx == va_arg(cx0)
      p == cx.va
  IN
  With(float_argument_error(cx, arg), LAMBDA fe :
    IF fe.rc # 0 THEN Fail(fe.cx, MsgBuf)
    ELSE
    With(PyLong_AsLong(cx, arg), LAMBDA r :
      IF r.ival = -1 /\ PyErr_Occurred(r.cx) THEN Fail(r.cx, MsgBuf)
      ELSE IF r.ival > INT_MAX
        THEN Fail(raiseWithFmt(r.cx, Err("OverflowError",
                    "signed integer is greater than maximum", 0, 0)), MsgBuf)
      ELSE IF r.ival < INT_MIN
        THEN Fail(raiseWithFmt(r.cx, Err("OverflowError",
                    "signed integer is less than minimum", 0, 0)), MsgBuf)
      ELSE Ok(Store(r.cx, p, OutVal("int", NullObj, 0, r.ival)), fp)))

\* the overflow error of a range-checked code
Overflow(cx, text) == Fail(raiseWithFmt(cx, Err("OverflowError", text, 0, 0)), MsgBuf)

\* case 'b'
convert_b(cx0, arg, fp) ==
  LET cx == va_arg(cx0)
      p == cx.va
  IN
  With(float_argument_error(cx, arg), LAMBDA fe :
    IF fe.rc # 0 THEN Fail(fe.cx, MsgBuf)
    ELSE
    With(PyLong_AsLong(cx, arg), LAMBDA r :
      IF r.ival = -1 /\ PyErr_Occurred(r.cx) THEN Fail(r.cx, MsgBuf)
      ELSE IF r.ival < 0
        THEN Overflow(r.cx, "unsigned byte integer is less than minimum")
      ELSE IF r.ival > UCHAR_MAX
        THEN Overflow(r.cx, "unsigned byte integer is greater than maximum")
      ELSE Ok(Store(r.cx, p, OutVal("uchar", NullObj, 0, Mask(r.ival, CharBits))), fp)))

\* Variant for C16: the byte-sized bitfield refuses what does not fit.
convert_B_checked(cx0, arg, fp) == convert_b(cx0, arg, fp)

\* case 'B'
convert_B(cx0, arg, fp) ==
  LET cx == va_arg(cx0)
      p == cx.va
  IN
  With(float_argument_error(cx, arg), LAMBDA fe :
    IF fe.rc # 0 THEN Fail(fe.cx, MsgBuf)
    ELSE
    With(PyLong_AsUnsignedLongMask(cx, arg), LAMBDA r :
      IF r.ival = -1 /\ PyErr_Occurred(r.cx) THEN Fail(r.cx, MsgBuf)
      ELSE Ok(Store(r.cx, p, OutVal("uchar", NullObj, 0, Mask(r.ival, CharBits))), fp)))

\* case 'h'
convert_h(cx0, arg, fp) ==
  LET cx == va_arg(cx0)
      p == cx.va
  IN
  With(float_argument_error(cx, arg), LAMBDA fe :
    IF fe.rc # 0 THEN Fail(fe.cx, MsgBuf)
    ELSE
    With(PyLong_AsLong(cx, arg), LAMBDA r :
      IF r.ival = -1 /\ PyErr_Occurred(r.cx) THEN Fail(r.cx, MsgBuf)
      ELSE IF r.ival < SHRT_MIN
        THEN Overflow(r.cx, "signed short integer is less than minimum")
      ELSE IF r.ival > SHRT_MAX
        THEN Overflow(r.cx, "signed short integer is greater than maximum")
      ELSE Ok(Store(r.cx, p, OutVal("short", NullObj, 0, r.ival)), fp)))

\* case 'H'
convert_H(cx0, arg, fp) ==
  LET cx == va_arg(cx0)
      p == cx.va
  IN
  With(float_argument_error(cx, arg), LAMBDA fe :
    IF fe.rc # 0 THEN Fail(fe.cx, MsgBuf)
    ELSE
    With(PyLong_AsUnsignedLongMask(cx, arg), LAMBDA r :
      IF r.ival = -1 /\ PyErr_Occurred(r.cx) THEN Fail(r.cx, MsgBuf)
      ELSE Ok(Store(r.cx, p, OutVal("ushort", NullObj, 0, Mask(r.ival, ShortBits))), fp)))

\* case 'I'
convert_I(cx0, arg, fp) ==
  LET cx == va_arg(cx0)
      p == cx.va
  IN
  With(float_argument_error(cx, arg), LAMBDA fe :
    IF fe.rc # 0 THEN Fail(fe.cx, MsgBuf)
    ELSE
    With(PyLong_AsUnsignedLongMask(cx, arg), LAMBDA r :
      \* -1 converted to unsigned int compares equal to -1U
      IF r.ival = -1 /\ PyErr_Occurred(r.cx) THEN Fail(r.cx, MsgBuf)
      ELSE Ok(Store(r.cx, p, OutVal("uint", NullObj, 0, Mask(r.ival, IntBits))), fp)))

\* case 'n'
convert_n(cx0, arg, fp) ==
  LET cx == va_arg(cx0)
      p == cx.va
  IN
  With(float_argument_error(cx, arg), LAMBDA fe :
    IF fe.rc # 0 THEN Fail(fe.cx, MsgBuf)
    ELSE
    With(PyNumber_Index(cx, arg), LAMBDA ix :
      IF ix.iobj = NullObj THEN Fail(ix.cx, MsgBuf)
      ELSE
      With(PyLong_AsSsize_t(ix.cx, ix.iobj), LAMBDA r :
        With(Py_DECREF(r.cx, ix.iobj), LAMBDA c1 :
          IF r.ival = -1 /\ PyErr_Occurred(c1) THEN Fail(c1, MsgBuf)
          ELSE Ok(Store(c1, p, OutVal("ssize", NullObj, 0, r.ival)), fp)))))

\* case 'l'
convert_l(cx0, arg, fp) ==
  LET cx == va_arg(cx0)
      p == cx.va
  IN
  With(float_argument_error(cx, arg), LAMBDA fe :
    IF fe.rc # 0 THEN Fail(fe.cx, MsgBuf)
    ELSE
    With(PyLong_AsLong(cx, arg), LAMBDA r :
      IF r.ival = -1 /\ PyErr_Occurred(r.cx) THEN Fail(r.cx, MsgBuf)
      ELSE Ok(Store(r.cx, p, OutVal("long", NullObj, 0, r.ival)), fp)))

\* case 'k'
convert_k(cx0, arg, fp) ==
  LET cx == va_arg(cx0)
      p == cx.va
  IN
  IF ~PyLong_Check(arg) THEN Fail(cx, converterr("int", arg))
  ELSE
  With(PyLong_AsUnsignedLongMask(cx, arg), LAMBDA r :
    Ok(Store(r.cx, p, OutVal("ulong", NullObj, 0, r.ival)), fp))

\* case 'L'
convert_L(cx0, arg, fp) ==
  LET cx == va_arg(cx0)
      p == cx.va
  IN
  With(float_argument_error(cx, arg), LAMBDA fe :
    IF fe.rc # 0 THEN Fail(fe.cx, MsgBuf)
    ELSE
    With(PyLong_AsLongLong(cx, arg), LAMBDA r :
      IF r.ival = -1 /\ PyErr_Occurred(r.cx) THEN Fail(r.cx, MsgBuf)
      ELSE Ok(Store(r.cx, p, OutVal("llong", NullObj, 0, r.ival)), fp)))

\* case 'K'
convert_K(cx0, arg, fp) ==
  LET cx == va_arg(cx0)
      p == cx.va
  IN
  IF ~PyLong_Check(arg) THEN Fail(cx, converterr("int", arg))
  ELSE
  With(PyLong_AsUnsignedLongLongMask(cx, arg), LAMBDA r :
    Ok(Store(r.cx, p, OutVal("ullong", NullObj, 0, r.ival)), fp))

\* case 'y'
convert_y(cx0, arg, f, fp) ==
  LET cx == va_arg(cx0)
      p == cx.va
  IN IF At(f, fp) = "*"
       THEN With(getbuffer(cx, arg, p), LAMBDA g :
              IF g.rc < 0 THEN Fail(g.cx, converterr(g.errmsg, arg))
              ELSE Ok(addcleanup(g.cx, p, "cleanup_buffer"), fp + 1))
       ELSE With(convertbuffer(cx, arg, p), LAMBDA b :
              IF b.count < 0 THEN Fail(b.cx, converterr(b.errmsg, arg))
              ELSE IF At(f, fp) = "#"
                THEN StoreSizeAndReturn(va_arg(b.cx), b.cx.va + 1, b.count, arg, fp + 1)
              ELSE IF strlen(arg) # b.count
                THEN Fail(raiseWithFmt(b.cx, Err("ValueError",
                            "embedded null byte", 0, 0)), MsgBuf)
                ELSE Ok(b.cx, fp))

\* case 's', case 'z'
convert_s(cx0, arg, c, f, fp) ==
  LET isNone == c = "z" /\ Kind(arg) = "none" IN
  IF At(f, fp) = "*"
    THEN LET cx == va_arg(cx0)
             p == cx.va
         IN IF isNone
              THEN Ok(addcleanup(PyBuffer_FillInfo(cx, p, NullObj, 0, 1, 0).cx,
                                 p, "cleanup_buffer"), fp + 1)
            ELSE IF PyUnicode_Check(arg)
              THEN Ok(addcleanup(
                        PyBuffer_FillInfo(cx, p, arg, ObjInfo[arg].len, 1, 0).cx,
                        p, "cleanup_buffer"), fp + 1)
            ELSE With(getbuffer(cx, arg, p), LAMBDA g :
                   IF g.rc < 0 THEN Fail(g.cx, converterr(g.errmsg, arg))
                   ELSE Ok(addcleanup(g.cx, p, "cleanup_buffer"), fp + 1))
  ELSE IF At(f, fp) = "#"
    THEN LET cx == va_arg(va_arg(cx0))
             p == cx.va - 1
             q == cx.va
         IN IF isNone
              THEN StoreSizeAndReturn(Store(cx, p, OutVal("ptr", NullObj, 0, 0)),
                                      q, 0, arg, fp + 1)
            ELSE IF PyUnicode_Check(arg)
              THEN StoreSizeAndReturn(Store(cx, p, OutVal("ptr", arg, 0, 0)),
                                      q, ObjInfo[arg].len, arg, fp + 1)
            ELSE With(convertbuffer(cx, arg, p), LAMBDA b :
                   IF b.count < 0 THEN Fail(b.cx, converterr(b.errmsg, arg))
                   ELSE StoreSizeAndReturn(b.cx, q, b.count, arg, fp + 1))
  ELSE LET cx == va_arg(cx0)
           p == cx.va
       IN IF isNone THEN Ok(Store(cx, p, OutVal("ptr", NullObj, 0, 0)), fp)
          ELSE IF PyUnicode_Check(arg)
            THEN IF strlen(arg) # ObjInfo[arg].len
                   THEN Fail(raiseWithFmt(cx, Err("ValueError",
                               "embedded null character", 0, 0)), MsgBuf)
                   ELSE Ok(Store(cx, p, OutVal("ptr", arg, 0, 0)), fp)
          ELSE Fail(cx, converterr(IF c = "z" THEN "str or None" ELSE "str", arg))

\* case 'u', case 'Z'
convert_u(cx0, arg, c, f, fp) ==
  LET isNone == c = "Z" /\ Kind(arg) = "none" IN
  IF At(f, fp) = "#"
    THEN LET cx == va_arg(va_arg(cx0))
             p == cx.va - 1
             q == cx.va
         IN IF isNone
              THEN StoreSizeAndReturn(Store(cx, p, OutVal("ptr", NullObj, 0, 0)),
                                      q, 0, arg, fp + 1)
            ELSE IF PyUnicode_Check(arg)
              THEN StoreSizeAndReturn(Store(cx, p, OutVal("ptr", arg, 0, 0)),
                                      q, ObjInfo[arg].len, arg, fp + 1)
            ELSE Fail(cx, converterr(IF c = "Z" THEN "str or None" ELSE "str", arg))
  ELSE LET cx == va_arg(cx0)
           p == cx.va
       IN IF isNone THEN Ok(Store(cx, p, OutVal("ptr", NullObj, 0, 0)), fp)
          ELSE IF PyUnicode_Check(arg)
            THEN \* *p is assigned before the length is compared
                 With(Store(cx, p, OutVal("ptr", arg, 0, 0)), LAMBDA c1 :
                   IF Py_UNICODE_strlen(arg) # ObjInfo[arg].len
                     THEN Fail(raiseWithFmt(c1, Err("ValueError",
                                 "embedded null character", 0, 0)), MsgBuf)
                     ELSE Ok(c1, fp))
          ELSE Fail(cx, converterr(IF c = "Z" THEN "str or None" ELSE "str", arg))

\* the end of "es#"/"et#": STORE_SIZE(size), then Py_DECREF(s).  The return
\* inside the macro leaves before the Py_DECREF.
StoreEncodedSize(cx, q, size, arg, s, fp) ==
  With(STORE_SIZE(cx, q, size, arg), LAMBDA st :
    IF st.ok THEN Ok(Py_DECREF(st.cx, s), fp)
    ELSE Fail(st.cx, converterr("", arg)))

\* case 'e'.  va: the encoding, then char** buffer, then (with '#') the length.
\* The caller's buffer is pre-set (*buffer non-null, *buffer_len = cx.buflen)
\* when cx.buflen > 0.
convert_e(cx0, arg, f, fp) ==
  LET cxe == va_arg(cx0) IN
  IF At(f, fp) \notin {"s", "t"}
    THEN Fail(cxe, converterr("(unknown parser marker combination)", arg))
  ELSE
  LET recode_strings == At(f, fp) = "s"
      cxb == va_arg(cxe)
      buffer == cxb.va
      fp1 == fp + 1
  IN
  IF ~recode_strings /\ (PyBytes_Check(arg) \/ PyByteArray_Check(arg))
    THEN \* PyObject_AsCharBuffer is UNIMPLEMENTED: the process aborts
         Fail(Py_FatalError(Py_INCREF(cxb, arg), "unimplemented: PyObject_AsCharBuffer"),
              converterr("(AsCharBuffer failed)", arg))
  ELSE IF ~PyUnicode_Check(arg)
    THEN Fail(cxb, converterr(IF recode_strings THEN "str"
                              ELSE "str, bytes or bytearray", arg))
  ELSE
  LET cxs == PyUnicode_AsEncodedString(cxb, arg)
      s == "ENC"
      size == ObjInfo[arg].len
  IN
  IF At(f, fp1) = "#"
    THEN LET cxq == va_arg(cxs)
             q == cxq.va
             fp2 == fp1 + 1
         IN IF cxq.buflen = 0
              THEN With(PyMem_NEW(cxq), LAMBDA m :
                     IF m.p = 0
                       THEN Fail(raiseWithFmt(Py_DECREF(m.cx, s),
                                   Err("MemoryError", "", 0, 0)), MsgBuf)
                       ELSE StoreEncodedSize(
                              addcleanup(
                                Store(m.cx, buffer, OutVal("ptr", NullObj, m.p, 0)),
                                m.p, "cleanup_ptr"),
                              q, size, arg, s, fp2))
              ELSE IF size + 1 > cxq.buflen
                     THEN Fail(raiseWithFmt(Py_DECREF(cxq, s),
                                 Err("ValueError", "encoded string too long",
                                     size, cxq.buflen - 1)), MsgBuf)
                     ELSE StoreEncodedSize(
                            Store(cxq, buffer, OutVal("callerbuf", NullObj, 0, size)),
                            q, size, arg, s, fp2)
    ELSE IF strlen(arg) # size
           THEN Fail(Py_DECREF(cxs, s),
                     converterr("encoded string without null bytes", arg))
           ELSE With(PyMem_NEW(cxs), LAMBDA m :
                  IF m.p = 0
                    THEN Fail(raiseWithFmt(Py_DECREF(m.cx, s),
                                Err("MemoryError", "", 0, 0)), MsgBuf)
                    ELSE Ok(Py_DECREF(addcleanup(
                              Store(m.cx, buffer, OutVal("ptr", NullObj, m.p, 0)),
                              m.p, "cleanup_ptr"), s), fp1))

\* case 'C'
convert_C(cx0, arg, fp) ==
  LET cx == va_arg(cx0)
      p == cx.va
  IN IF ~PyUnicode_Check(arg) THEN Fail(cx, converterr("a unicode character", arg))
     ELSE IF ObjInfo[arg].len # 1 THEN Fail(cx, converterr("a unicode character", arg))
     ELSE Ok(Store(cx, p, OutVal("char", arg, 0, 0)), fp)

\* Variant for C18: every converter that succeeds is registered for cleanup.
convert_O_registering(cx0, arg, f, fp) ==
  IF At(f, fp) = "!"
    THEN LET cx == va_arg(va_arg(cx0))
             p == cx.va
         IN IF PyType_IsSubtype(arg, cx.guard)
              THEN Ok(Store(cx, p, OutVal("obj", arg, 0, 0)), fp + 1)
              ELSE Fail(cx, converterr(cx.guard, arg))
  ELSE IF At(f, fp) = "&"
    THEN LET cx == va_arg(va_arg(cx0))
             addr == cx.va
         IN With(converter(cx, arg, addr), LAMBDA r :
              IF r.res = 0 THEN Fail(r.cx, converterr("(unspecified)", arg))
              ELSE Ok(addcleanup(r.cx, addr, "converter"), fp + 1))
    ELSE LET cx == va_arg(cx0)
             p == cx.va
         IN Ok(Store(cx, p, OutVal("obj", arg, 0, 0)), fp)

\* case 'O': va for "O!" is the type, then PyObject** p
convert_O(cx0, arg, f, fp) ==
  IF At(f, fp) = "!"
    THEN LET cx == va_arg(va_arg(cx0))
             p == cx.va
         IN IF PyType_IsSubtype(arg, cx.guard)
              THEN Ok(Store(cx, p, OutVal("obj", arg, 0, 0)), fp + 1)
              ELSE Fail(cx, converterr(cx.guard, arg))
  ELSE IF At(f, fp) = "&"
    THEN LET cx == va_arg(va_arg(cx0))
             addr == cx.va
         IN With(converter(cx, arg, addr), LAMBDA r :
              IF r.res = 0 THEN Fail(r.cx, converterr("(unspecified)", arg))
              ELSE IF r.res = Py_CLEANUP_SUPPORTED
                THEN Ok(addcleanup(r.cx, addr, "converter"), fp + 1)
                ELSE Ok(r.cx, fp + 1))
    ELSE LET cx == va_arg(cx0)
             p == cx.va
         IN Ok(Store(cx, p, OutVal("obj", arg, 0, 0)), fp)

\* case 'w'
convert_w(cx0, arg, f, fp) ==
  LET cx == va_arg(cx0)
      p == cx.va
  IN IF At(f, fp) # "*"
       THEN Fail(cx, converterr("(invalid use of 'w' format character)", arg))
       ELSE With(PyObject_GetBuffer(cx, arg, p, PyBUF_WRITABLE), LAMBDA g :
              IF g.rc < 0
                THEN Fail(PyErr_Clear(g.cx),
                          converterr("read-write bytes-like object", arg))
              ELSE IF ~PyBuffer_IsContiguous(g.cx, p)
                THEN Fail(PyBuffer_Release(g.cx, p), converterr("contiguous buffer", arg))
              ELSE Ok(addcleanup(g.cx, p, "cleanup_buffer"), fp + 1))

\* fp is the position of the item's code in f
convertsimple(cx, arg, f, fp) ==
  LET c == At(f, fp) IN
  CASE c = "b" -> convert_b(cx, arg, fp + 1)
    [] c = "B" -> convert_B(cx, arg, fp + 1)
    [] c = "h" -> convert_h(cx, arg, fp + 1)
    [] c = "H" -> convert_H(cx, arg, fp + 1)
    [] c = "i" -> convert_i(cx, arg, fp + 1)
    [] c = "I" -> convert_I(cx, arg, fp + 1)
    [] c = "n" -> convert_n(cx, arg, fp + 1)
    [] c = "l" -> convert_l(cx, arg, fp + 1)
    [] c = "k" -> convert_k(cx, arg, fp + 1)
    [] c = "L" -> convert_L(cx, arg, fp + 1)
    [] c = "K" -> convert_K(cx, arg, fp + 1)
    [] c = "C" -> convert_C(cx, arg, fp + 1)
    [] c = "y" -> convert_y(cx, arg, f, fp + 1)
    [] c \in {"s", "z"} -> convert_s(cx, arg, c, f, fp + 1)
    [] c \in {"u", "Z"} -> convert_u(cx, arg, c, f, fp + 1)
    [] c = "e" -> convert_e(cx, arg, f, fp + 1)
    [] c = "O" -> convert_O(cx, arg, f, fp + 1)
    [] c = "w" -> convert_w(cx, arg, f, fp + 1)
    [] OTHER -> Fail(cx, converterr("(impossible<bad format char>)", arg))

(***************************************************************************)
(* converttuple, convertitem                                               *)
(***************************************************************************)
\* the item count of the tuple spec that starts at p (after its '(')
RECURSIVE CountTupleItems(_, _, _, _)
CountTupleItems(f, p, level, n) ==
  LET c == At(f, p) IN
  IF c = "(" THEN CountTupleItems(f, p + 1, level + 1, IF level = 0 THEN n + 1 ELSE n)
  ELSE IF c = ")" THEN IF level = 0 THEN n ELSE CountTupleItems(f, p + 1, level - 1, n)
  ELSE IF c = ":" \/ c = ";" \/ c = NUL THEN n
  ELSE CountTupleItems(f, p + 1, level,
                       IF level = 0 /\ Py_ISALPHA(c) THEN n + 1 ELSE n)

\* An element of a tuple or list, or what __getitem__ returns: a character
\* of a str, an error raised by the method of a user type.  The result is a
\* new reference.  cx.fetched records the calls.
PySequence_GetItem(cx0, arg, i) ==
  LET cx == [cx0 EXCEPT !.fetched = Append(@, [seq |-> arg, idx |-> i])] IN
  IF Kind(arg) = "userseq"
    THEN [cx |-> UserRaise(cx, "raised by __getitem__", i), item |-> NullObj]
  ELSE IF i >= Len(ObjInfo[arg].items)
    THEN \* outside the fast paths: __getitem__ of the builtin type raises
         [cx |-> raiseWithFmt(cx, Err("IndexError", "index out of range", i, 0)),
          item |-> NullObj]
    ELSE [cx |-> Py_INCREF(cx, ObjInfo[arg].items[i + 1]),
          item |-> ObjInfo[arg].items[i + 1]]

RECURSIVE convertitem(_, _, _, _)
RECURSIVE ConvertTupleItems(_, _, _, _, _, _)

ConvertTupleItems(cx, arg, f, fp, i, n) ==
  IF i >= n
    THEN [cx |-> cx, msg |-> NullMsg, fp |-> fp, levels |-> <<>>]
    ELSE With(PySequence_GetItem(cx, arg, i), LAMBDA g :
           IF g.item = NullObj
             THEN [cx |-> PyErr_Clear(g.cx), fp |-> fp, levels |-> <<i + 1>>,
                   msg |-> Msg(FALSE, "is not retrievable", "")]
           ELSE
           With(convertitem(g.cx, g.item, f, fp), LAMBDA r :
             IF ~r.msg.null
               THEN [cx |-> Py_DECREF(r.cx, g.item), msg |-> r.msg, fp |-> fp,
                     levels |-> <<i + 1>> \o r.levels]
               ELSE ConvertTupleItems(Py_DECREF(r.cx, g.item), arg, f, r.fp, i + 1, n)))

\* Variant for C13: the length of the sequence is not compared with n.
converttuple_anylength(cx, arg, f, fp, toplevel) ==
  IF ~PySequence_Check(arg) \/ PyBytes_Check(arg)
    THEN [cx |-> cx, fp |-> fp, levels |-> <<>>,
          msg |-> MsgN("must be %d-item sequence, not %.50s", Kind(arg),
                       CountTupleItems(f, fp, 0, 0), 0)]
    ELSE ConvertTupleItems(cx, arg, f, fp, 0, CountTupleItems(f, fp, 0, 0))

\* fp is the position after the opening '('; on success the result's fp is
\* the position of the closing ')'
converttuple(cx, arg, f, fp, toplevel) ==
  LET n == CountTupleItems(f, fp, 0, 0) IN
  IF ~PySequence_Check(arg) \/ PyBytes_Check(arg)
    THEN [cx |-> cx, fp |-> fp, levels |-> <<>>,
          msg |-> MsgN(IF toplevel THEN "expected %d arguments, not %.50s"
                       ELSE "must be %d-item sequence, not %.50s", Kind(arg), n, 0)]
  ELSE IF PySequence_Size(arg) # n
    THEN [cx |-> cx, fp |-> fp, levels |-> <<>>,
          msg |-> MsgN(IF toplevel THEN "expected %d arguments, not %d"
                       ELSE "must be sequence of length %d, not %d", "",
                       n, PySequence_Size(arg))]
  ELSE ConvertTupleItems(cx, arg, f, fp, 0, n)

\* levels is the 0-terminated list of item numbers, without its terminator
convertitem(cx, arg, f, fp) ==
  IF At(f, fp) = "("
    THEN With(converttuple(cx, arg, f, fp + 1, FALSE), LAMBDA r :
           IF r.msg.null
             THEN [cx |-> r.cx, msg |-> r.msg, fp |-> r.fp + 1, levels |-> <<>>]
             ELSE [cx |-> r.cx, msg |-> r.msg, fp |-> fp, levels |-> r.levels])
    ELSE With(convertsimple(cx, arg, f, fp), LAMBDA r :
           IF r.msg.null
             THEN [cx |-> r.cx, msg |-> r.msg, fp |-> r.fp, levels |-> <<>>]
             ELSE [cx |-> r.cx, msg |-> r.msg, fp |-> fp, levels |-> <<>>])

(***************************************************************************)
(* seterror                                                                *)
(***************************************************************************)
\* the ", item %d" parts: one per level, each printing levels[i] - 1
\* Variant: the accumulated one-based indices printed as they are.
ItemPath_accumulated(levels) == levels

RECURSIVE ItemPath(_)
ItemPath(levels) ==
  IF levels = <<>> THEN <<>> ELSE <<Head(levels) - 1>> \o ItemPath(Tail(levels))

\* Variant for C2: no test for an error that is already pending.
seterror_overwriting(cx, iarg, msg, levels, fname, message) ==
  raiseWithFmt(cx, [type |-> IF msg.paren THEN "SystemError" ELSE "TypeError",
                    text |-> IF message = 0 THEN msg.expected ELSE "<custom message>",
                    a |-> IF message = 0 THEN iarg ELSE 0, b |-> fname,
                    path |-> IF message = 0 /\ iarg # 0 THEN ItemPath(levels) ELSE <<>>,
                    ma |-> IF message = 0 THEN msg.a ELSE 0,
                    mb |-> IF message = 0 THEN msg.b ELSE 0])

seterror(cx, iarg, msg, levels, fname, message) ==
  IF PyErr_Occurred(cx) THEN cx
  ELSE LET text == IF message = 0 THEN msg.expected ELSE "<custom message>"
           path == IF message = 0 /\ iarg # 0 THEN ItemPath(levels) ELSE <<>>
           e == [type |-> IF msg.paren THEN "SystemError" ELSE "TypeError",
                 text |-> text, a |-> IF message = 0 THEN iarg ELSE 0,
                 b |-> fname, path |-> path,
                 ma |-> IF message = 0 THEN msg.a ELSE 0,
                 mb |-> IF message = 0 THEN msg.b ELSE 0]
       IN raiseWithFmt(cx, e)

(***************************************************************************)
(* skipitem                                                                *)
(***************************************************************************)
SingleSlotCodes ==
  {"b", "B", "h", "H", "i", "I", "l", "k", "L", "K", "n", "f", "d", "D", "c",
   "C", "p", "S", "Y", "U"}

StringCodes == {"s", "z", "y", "u", "Z", "w"}

\* the rest of a string code after its letter (and after "es"/"et")
SkipStringTail(c, f, fp, va, pva) ==
  LET va1 == IF pva THEN va + 1 ELSE va IN
  IF At(f, fp) = "#"
    THEN [msg |-> "", fp |-> fp + 1, va |-> IF pva THEN va1 + 1 ELSE va1]
  ELSE IF c \in {"s", "z", "y"} /\ At(f, fp) = "*"
    THEN [msg |-> "", fp |-> fp + 1, va |-> va1]
  ELSE [msg |-> "", fp |-> fp, va |-> va1]

RECURSIVE skipitem(_, _, _, _)
RECURSIVE SkipTupleItems(_, _, _, _)

SkipTupleItems(f, fp, va, pva) ==
  IF At(f, fp) = ")" THEN [msg |-> "", fp |-> fp + 1, va |-> va]
  ELSE IF IS_END_OF_FORMAT(At(f, fp))
    THEN [msg |-> "Unmatched left paren in format string", fp |-> fp, va |-> va]
  ELSE With(skipitem(f, fp, va, pva), LAMBDA r :
         IF r.msg # "" THEN r ELSE SkipTupleItems(f, r.fp, r.va, pva))

\* fp is the position of the item's code; pva is "p_va != nullptr"
skipitem(f, fp, va, pva) ==
  LET c == At(f, fp)
      bad == [msg |-> "impossible<bad format char>", fp |-> fp, va |-> va]
  IN CASE c \in SingleSlotCodes ->
            [msg |-> "", fp |-> fp + 1, va |-> IF pva THEN va + 1 ELSE va]
       [] c = "e" ->
            IF At(f, fp + 1) \notin {"s", "t"} THEN bad
            ELSE SkipStringTail(c, f, fp + 2, IF pva THEN va + 1 ELSE va, pva)
       [] c \in StringCodes -> SkipStringTail(c, f, fp + 1, va, pva)
       [] c = "O" ->
            IF At(f, fp + 1) \in {"!", "&"}
              THEN [msg |-> "", fp |-> fp + 2, va |-> IF pva THEN va + 2 ELSE va]
              ELSE [msg |-> "", fp |-> fp + 1, va |-> IF pva THEN va + 1 ELSE va]
       [] c = "(" ->
            With(SkipTupleItems(f, fp + 1, va, pva), LAMBDA r :
              IF r.msg # "" THEN [r EXCEPT !.fp = fp] ELSE r)
       [] c = ")" ->
            [msg |-> "Unmatched right paren in format string", fp |-> fp, va |-> va]
       [] OTHER -> bad

(***************************************************************************)
(* vGetArgs1Impl                                                           *)
(***************************************************************************)
\* The scan of the format: max counts the top-level items, min those before
\* '|'.  fname and message are positions in f (0: nullptr).
RECURSIVE ScanFormat(_, _, _, _, _)
ScanFormat(f, p, level, max, min) ==
  LET c == At(f, p)
      res(fn, m, fatal) == [level |-> level, max |-> max, min |-> min,
                            fname |-> fn, message |-> m, fatal |-> fatal]
  IN CASE c = "(" ->
            IF level + 1 >= MaxNesting
              THEN res(0, 0, "too many tuple nesting levels in argument format string")
              ELSE ScanFormat(f, p + 1, level + 1,
                              IF level = 0 THEN max + 1 ELSE max, min)
       [] c = ")" ->
            IF level = 0 THEN res(0, 0, "excess ')' in getargs format")
            ELSE ScanFormat(f, p + 1, level - 1, max, min)
       [] c = NUL -> res(0, 0, "")
       [] c = ":" -> res(p + 1, 0, "")
       [] c = ";" -> res(0, p + 1, "")
       [] c = "|" -> ScanFormat(f, p + 1, level, max, IF level = 0 THEN max ELSE min)
       [] OTHER ->
            ScanFormat(f, p + 1, level,
                       IF level = 0 /\ Py_ISALPHA(c) /\ c # "e" THEN max + 1 ELSE max,
                       min)

\* entries = PyMem_NEW(freelistentry_t, n) when n exceeds the static entries
AllocFreelist(cx, n) ==
  IF n > STATIC_FREELIST_ENTRIES
    THEN With(PyMem_NEW(cx), LAMBDA m :
           IF m.p = 0
             THEN [cx |-> [raiseWithFmt(m.cx, Err("MemoryError", "", 0, 0))
                           EXCEPT !.ret = 0], ok |-> FALSE]
             ELSE [cx |-> [m.cx EXCEPT !.malloced = m.p, !.capacity = n],
                   ok |-> TRUE])
    ELSE [cx |-> cx, ok |-> TRUE]

\* Variant for C8: "at least" and "at most" exchanged.
\* a variant that lets any number of positional values through
ExceedsMax_ignored(max, nargs) == FALSE

\* the test "max < nargs" of both keyword paths: more positional values
\* than items before '$'
ExceedsMax(max, nargs) == max < nargs

ArityError_exchanged(min, max, nargs, fname) ==
  [type |-> "TypeError",
   text |-> IF min = max THEN "takes exactly"
            ELSE IF nargs < min THEN "takes at most" ELSE "takes at least",
   a |-> IF nargs < min THEN min ELSE max, b |-> nargs, path |-> <<>>,
   ma |-> 0, mb |-> 0]

ArityError(min, max, nargs, fname) ==
  [type |-> "TypeError",
   text |-> IF min = max THEN "takes exactly"
            ELSE IF nargs < min THEN "takes at least" ELSE "takes at most",
   a |-> IF nargs < min THEN min ELSE max, b |-> nargs, path |-> <<>>,
   ma |-> 0, mb |-> 0]

\* the loop over the positional values: i is 0-based
RECURSIVE ConvertArgs(_, _, _, _, _, _, _)
ConvertArgs(cx, f, fp0, i, stack, fname, message) ==
  IF i >= Len(stack)
    THEN LET c == At(f, fp0) IN
         IF c # NUL /\ ~Py_ISALPHA(c) /\ c # "(" /\ c # "|" /\ c # ":" /\ c # ";"
           THEN cleanreturn(0, raiseWithFmt(cx, Err("SystemError", "bad format string", 0, 0)))
           ELSE cleanreturn(1, cx)
    ELSE With(convertitem(cx, stack[i + 1], f,
                          IF At(f, fp0) = "|" THEN fp0 + 1 ELSE fp0), LAMBDA r :
           IF r.cx.abort # "" THEN r.cx
           ELSE IF ~r.msg.null
             THEN cleanreturn(0, seterror(r.cx, i + 1, r.msg, r.levels, fname, message))
             ELSE ConvertArgs(r.cx, f, r.fp, i + 1, stack, fname, message))

\* compat_args is an object or NullObj; stack is the sequence of positional values
vGetArgs1Impl(cx0, compat_args, stack, f, compat) ==
  With(ScanFormat(f, 1, 0, 0, -1), LAMBDA sc :
  IF sc.fatal # "" THEN Py_FatalError(cx0, sc.fatal)
  ELSE IF sc.level # 0 THEN Py_FatalError(cx0, "missing ')' in getargs format")
  ELSE
  With(AllocFreelist(cx0, sc.max), LAMBDA fl :
  LET max == sc.max
      min == IF sc.min < 0 THEN max ELSE sc.min
      nargs == Len(stack)
      cx == fl.cx
  IN
  IF ~fl.ok THEN cx
  ELSE IF compat
    THEN IF max = 0
           THEN IF compat_args = NullObj THEN [cx EXCEPT !.ret = 1]
                ELSE cleanreturn(0, raiseWithFmt(cx,
                       Err("TypeError", "takes no arguments", 0, 0)))
         ELSE IF min = 1 /\ max = 1
           THEN IF compat_args = NullObj
                  THEN cleanreturn(0, raiseWithFmt(cx,
                         Err("TypeError", "takes at least one argument", 0, 0)))
                  ELSE With(convertitem(cx, compat_args, f, 1), LAMBDA r :
                         IF r.cx.abort # "" THEN r.cx
                         ELSE IF r.msg.null THEN cleanreturn(1, r.cx)
                         ELSE cleanreturn(0,
                                seterror(r.cx,
                                         IF r.levels = <<>> THEN 0 ELSE Head(r.levels),
                                         r.msg,
                                         IF r.levels = <<>> THEN <<>> ELSE Tail(r.levels),
                                         sc.fname, sc.message)))
         ELSE cleanreturn(0, raiseWithFmt(cx,
                Err("SystemError", "old style getargs format uses new features", 0, 0)))
  ELSE IF nargs < min \/ max < nargs
    THEN IF sc.message = 0
           THEN cleanreturn(0, raiseWithFmt(cx, ArityError(min, max, nargs, sc.fname)))
           ELSE cleanreturn(0, raiseWithFmt(cx,
                  Err("TypeError", "<custom message>", 0, 0)))
  ELSE ConvertArgs(cx, f, 1, 0, stack, sc.fname, sc.message)))

(***************************************************************************)
(* Keyword binding: vgetargskeywords (format re-parsed on every call)      *)
(***************************************************************************)
\* strchr(format, c) + 1 as a position in f, 0 for nullptr
RECURSIVE AfterFirst(_, _, _)
AfterFirst(f, c, p) ==
  IF p > Len(f) THEN 0 ELSE IF f[p] = c THEN p + 1 ELSE AfterFirst(f, c, p + 1)

\* the number of leading empty names: the positional-only parameters
RECURSIVE CountPositionalOnly(_, _)
CountPositionalOnly(kwlist, pos) ==
  IF pos < Len(kwlist) /\ kwlist[pos + 1] = ""
    THEN CountPositionalOnly(kwlist, pos + 1) ELSE pos

\* Variant for C9: the lookup finds nothing.
PyDict_GetItemString_blind(keywords, keyword) == NullObj

PyDict_GetItemString(keywords, keyword) ==
  IF keyword \in DOMAIN keywords THEN keywords[keyword] ELSE NullObj

\* Variant for C11: a missing positional-only item is reported as a missing
\* named one.
PositionalError_named(qual, n, nargs) ==
  Err("TypeError", "Required argument not found", n, nargs)

PositionalError(qual, n, nargs) ==
  Err("TypeError", IF qual THEN "Function takes at least positional arguments"
                   ELSE "Function takes exactly positional arguments", n, nargs)

\* one record for what the loop of vgetargskeywords leaves behind
KwState(done, cx, i, fp, min, max, skip, nkeywords) ==
  [done |-> done, cx |-> cx, i |-> i, fp |-> fp, min |-> min, max |-> max,
   skip |-> skip, nkeywords |-> nkeywords]

RECURSIVE KeywordsLoop(_, _, _, _, _, _, _, _)
KeywordsLoop(cx, i, fp0, min0, max0, skip0, nkeywords0, env) ==
  LET nargs == Len(env.args)
      stop(c) == KwState(TRUE, cleanreturn(0, c), i, fp0, min0, max0, skip0, nkeywords0)
  IN
  IF i >= env.len THEN KwState(FALSE, cx, i, fp0, min0, max0, skip0, nkeywords0)
  ELSE
  LET keyword == env.kwlist[i + 1]
      bar == At(env.f, fp0) = "|"
      min == IF bar THEN i ELSE min0
      fp1 == IF bar THEN fp0 + 1 ELSE fp0
      dollar == At(env.f, fp1) = "$"
      max == IF dollar THEN i ELSE max0
      fp2 == IF dollar THEN fp1 + 1 ELSE fp1
  IN
  IF bar /\ min0 # INT_MAX
    THEN stop(raiseWithFmt(cx, Err("SystemError",
                "Invalid format string (| specified twice)", 0, 0)))
  ELSE IF bar /\ max0 # INT_MAX
    THEN stop(raiseWithFmt(cx, Err("SystemError",
                "Invalid format string ($ before |)", 0, 0)))
  ELSE IF dollar /\ max0 # INT_MAX
    THEN stop(raiseWithFmt(cx, Err("SystemError",
                "Invalid format string ($ specified twice)", 0, 0)))
  ELSE IF dollar /\ max < env.pos
    THEN stop(raiseWithFmt(cx, Err("SystemError", "Empty parameter name after $", 0, 0)))
  ELSE IF dollar /\ skip0
    THEN KwState(FALSE, cx, i, fp2, min, max, skip0, nkeywords0)
  ELSE IF dollar /\ ExceedsMax(max, nargs)
    THEN stop(raiseWithFmt(cx,
                Err("TypeError", IF min # INT_MAX
                                   THEN "Function takes at most positional arguments"
                                   ELSE "Function takes exactly positional arguments",
                    max, nargs)))
  ELSE IF IS_END_OF_FORMAT(At(env.f, fp2))
    THEN stop(raiseWithFmt(cx, Err("SystemError",
                "More keyword list entries than format specifiers", env.len, i)))
  ELSE
  LET bykw == IF ~skip0 /\ nkeywords0 # 0 /\ i >= env.pos
                THEN PyDict_GetItemString(env.keywords, keyword) ELSE NullObj
      nkeywords == IF bykw # NullObj THEN nkeywords0 - 1 ELSE nkeywords0
      current_arg == IF bykw # NullObj THEN bykw
                     ELSE IF ~skip0 /\ i < nargs THEN env.args[i + 1] ELSE NullObj
      skipnext(sk) ==
        With(skipitem(env.f, fp2, cx.va, TRUE), LAMBDA skipped :
          IF skipped.msg # ""
            THEN KwState(TRUE, cleanreturn(0, raiseWithFmt(cx,
                           Err("SystemError", skipped.msg, 0, 0))),
                         i, fp2, min, max, sk, nkeywords)
            ELSE KeywordsLoop([cx EXCEPT !.va = skipped.va], i + 1, skipped.fp,
                              min, max, sk, nkeywords, env))
  IN
  IF skip0 THEN skipnext(TRUE)
  ELSE IF bykw # NullObj /\ i < nargs
    THEN KwState(TRUE, cleanreturn(0, raiseWithFmt(cx,
                   Err("TypeError", "Argument given by name and position", i + 1, 0))),
                 i, fp2, min, max, skip0, nkeywords)
  ELSE IF current_arg # NullObj
    THEN With(convertitem(cx, current_arg, env.f, fp2), LAMBDA r :
           IF r.cx.abort # "" THEN KwState(TRUE, r.cx, i, fp2, min, max, skip0, nkeywords)
           ELSE IF ~r.msg.null
             THEN KwState(TRUE, cleanreturn(0, seterror(r.cx, i + 1, r.msg, r.levels,
                                                       env.fname, env.custom_msg)),
                          i, fp2, min, max, skip0, nkeywords)
             ELSE KeywordsLoop(r.cx, i + 1, r.fp, min, max, skip0, nkeywords, env))
  ELSE IF i < min /\ i >= env.pos
    THEN KwState(TRUE, cleanreturn(0, raiseWithFmt(cx,
                   Err("TypeError", "Required argument not found", i + 1, 0))),
                 i, fp2, min, max, skip0, nkeywords)
  ELSE IF i < min
    THEN skipnext(TRUE)
  ELSE IF nkeywords = 0
    THEN KwState(TRUE, cleanreturn(1, cx), i, fp2, min, max, skip0, nkeywords)
  ELSE skipnext(FALSE)

\* Variant for C10: the leftover keywords are not looked at.
HasInvalidKeyword_unchecked(keywords, kwlist) == FALSE

\* "make sure there are no extraneous keyword arguments": all keys are str here
HasInvalidKeyword(keywords, kwlist) ==
  \E key \in DOMAIN keywords :
    ~\E j \in 1 .. Len(kwlist) : kwlist[j] # "" /\ kwlist[j] = key

vgetargskeywords(cx0, args, keywords, f, kwlist) ==
  LET fname == AfterFirst(f, ":", 1)
      custom_msg == IF fname # 0 THEN 0 ELSE AfterFirst(f, ";", 1)
      pos == CountPositionalOnly(kwlist, 0)
      len == Len(kwlist)
      nargs == Len(args)
      nkeywords == Cardinality(DOMAIN keywords)
  IN
  IF \E k \in pos + 1 .. len : kwlist[k] = ""
    THEN cleanreturn(0, raiseWithFmt(cx0,
           Err("SystemError", "Empty keyword parameter name", 0, 0)))
  ELSE
  With(AllocFreelist(cx0, len), LAMBDA fl :
  LET cx == fl.cx
      env == [args |-> args, keywords |-> keywords, f |-> f, kwlist |-> kwlist,
              pos |-> pos, len |-> len, fname |-> fname, custom_msg |-> custom_msg]
  IN
  IF ~fl.ok THEN cx
  ELSE IF nargs + nkeywords > len
    THEN cleanreturn(0, raiseWithFmt(cx,
           Err("TypeError", "takes at most arguments", len, nargs + nkeywords)))
  ELSE
  With(KeywordsLoop(cx, 0, 1, INT_MAX, INT_MAX, FALSE, nkeywords, env), LAMBDA r :
  IF r.done THEN r.cx
  ELSE IF r.skip
    THEN cleanreturn(0, raiseWithFmt(r.cx,
           PositionalError(Py_MIN(pos, r.min) < r.i, Py_MIN(pos, r.min), nargs)))
  ELSE IF ~IS_END_OF_FORMAT(At(f, r.fp)) /\ At(f, r.fp) # "|" /\ At(f, r.fp) # "$"
    THEN cleanreturn(0, raiseWithFmt(r.cx, Err("SystemError",
           "more argument specifiers than keyword list entries", 0, 0)))
  ELSE IF r.nkeywords > 0 /\ HasInvalidKeyword(keywords, kwlist)
    THEN cleanreturn(0, raiseWithFmt(r.cx, Err("TypeError",
           "is an invalid keyword argument for this function", 0, 0)))
  ELSE cleanreturn(1, r.cx)))

(***************************************************************************)
(* Keyword binding through a cached parser: parserInit and                 *)
(* vGetArgsKeywordsFastImpl                                                *)
(***************************************************************************)
RECURSIVE ParserScan(_, _, _, _, _, _, _, _)
ParserScan(cx, f, fp0, i, len, pos, min0, max0) ==
  LET no(c) == [ok |-> FALSE, cx |-> c, min |-> min0, max |-> max0, fp |-> fp0] IN
  IF i >= len THEN [ok |-> TRUE, cx |-> cx, min |-> min0, max |-> max0, fp |-> fp0]
  ELSE
  LET bar == At(f, fp0) = "|"
      min == IF bar THEN i ELSE min0
      fp1 == IF bar THEN fp0 + 1 ELSE fp0
      dollar == At(f, fp1) = "$"
      max == IF dollar THEN i ELSE max0
      fp2 == IF dollar THEN fp1 + 1 ELSE fp1
  IN
  IF bar /\ min0 # INT_MAX
    THEN no(raiseWithFmt(cx, Err("SystemError",
              "Invalid format string (| specified twice)", 0, 0)))
  ELSE IF bar /\ max0 # INT_MAX
    THEN no(raiseWithFmt(cx, Err("SystemError",
              "Invalid format string ($ before |)", 0, 0)))
  ELSE IF dollar /\ max0 # INT_MAX
    THEN no(raiseWithFmt(cx, Err("SystemError",
              "Invalid format string ($ specified twice)", 0, 0)))
  ELSE IF dollar /\ i < pos
    THEN no(raiseWithFmt(cx, Err("SystemError", "Empty parameter name after $", 0, 0)))
  ELSE IF IS_END_OF_FORMAT(At(f, fp2))
    THEN no(raiseWithFmt(cx, Err("SystemError",
              "More keyword list entries than format specifiers", len, i)))
  ELSE With(skipitem(f, fp2, 0, FALSE), LAMBDA skipped :
         IF skipped.msg # ""
           THEN no(raiseWithFmt(cx, Err("SystemError", skipped.msg, 0, 0)))
           ELSE ParserScan(cx, f, skipped.fp, i + 1, len, pos, min, max))

\* the fields parserInit leaves in the parser, and *keyword_count
parserInit(cx, f, keywords) ==
  LET fname == AfterFirst(f, ":", 1)
      custom_msg == IF fname # 0 THEN 0 ELSE AfterFirst(f, ";", 1)
      pos == CountPositionalOnly(keywords, 0)
      len == Len(keywords)
      parser(ok, c, min, max) ==
        [ok |-> ok, cx |-> c, fname |-> fname, custom_msg |-> custom_msg,
         pos |-> pos, min |-> min, max |-> max, keyword_count |-> len - pos]
  IN
  IF \E k \in pos + 1 .. len : keywords[k] = ""
    THEN parser(FALSE, raiseWithFmt(cx,
           Err("SystemError", "Empty keyword parameter name", 0, 0)), 0, 0)
  ELSE
  With(ParserScan(cx, f, 1, 0, len, pos, INT_MAX, INT_MAX), LAMBDA sc :
  IF ~sc.ok THEN parser(FALSE, sc.cx, 0, 0)
  ELSE IF ~IS_END_OF_FORMAT(At(f, sc.fp)) /\ At(f, sc.fp) # "|" /\ At(f, sc.fp) # "$"
    THEN parser(FALSE, raiseWithFmt(sc.cx, Err("SystemError",
           "more argument specifiers than keyword list entries", 0, 0)),
           Py_MIN(sc.min, len), Py_MIN(sc.max, len))
  ELSE parser(TRUE, sc.cx, Py_MIN(sc.min, len), Py_MIN(sc.max, len)))

\* the first value of kwstack whose name in kwnames equals key
RECURSIVE findKeyword(_, _, _, _)
findKeyword(kwnames, kwstack, key, i) ==
  IF i > Len(kwnames) THEN NullObj
  ELSE IF kwnames[i] = key THEN kwstack[i]
  ELSE findKeyword(kwnames, kwstack, key, i + 1)

isValidKeyword(parser, keywords, num_keywords, key) ==
  \E i \in 0 .. num_keywords - 1 : key = keywords[i + parser.pos + 1]

\* kw is [dict |-> d] with names = <<>> (a keyword dict), or the kwnames
\* tuple with the values of kwstack
RECURSIVE FastLoop(_, _, _, _, _)
FastLoop(cx, i, fp0, num_keywords0, env) ==
  LET nargs == Len(env.args)
      parser == env.parser
      pos == parser.pos
  IN
  IF i >= env.len THEN [done |-> FALSE, cx |-> cx, num_keywords |-> num_keywords0]
  ELSE
  LET keyword == IF i >= pos THEN env.keywords[i + 1] ELSE ""
      fp1 == IF At(env.f, fp0) = "|" THEN fp0 + 1 ELSE fp0
      fp2 == IF At(env.f, fp1) = "$" THEN fp1 + 1 ELSE fp1
      bykw == IF num_keywords0 # 0 /\ i >= pos
                THEN IF env.usedict
                       THEN PyDict_GetItemString(env.dict, keyword)
                       ELSE findKeyword(env.kwnames, env.kwstack, keyword, 1)
                ELSE NullObj
      num_keywords == IF bykw # NullObj THEN num_keywords0 - 1 ELSE num_keywords0
      current_arg == IF bykw # NullObj THEN bykw
                     ELSE IF i < nargs THEN env.args[i + 1] ELSE NullObj
      final(c) == [done |-> TRUE, cx |-> c, num_keywords |-> num_keywords]
  IN
  IF bykw # NullObj /\ i < nargs
    THEN final(cleanreturn(0, raiseWithFmt(cx,
           Err("TypeError", "Argument given by name and position", i + 1, 0))))
  ELSE IF current_arg # NullObj
    THEN With(convertitem(cx, current_arg, env.f, fp2), LAMBDA r :
           IF r.cx.abort # "" THEN final(r.cx)
           ELSE IF ~r.msg.null
             THEN final(cleanreturn(0, seterror(r.cx, i + 1, r.msg, r.levels,
                                                parser.fname, parser.custom_msg)))
             ELSE FastLoop(r.cx, i + 1, r.fp, num_keywords, env))
  ELSE IF i < parser.min /\ i < pos
    THEN final(cleanreturn(0, raiseWithFmt(cx,
           PositionalError(Py_MIN(pos, parser.min) < parser.max,
                           Py_MIN(pos, parser.min), nargs))))
  ELSE IF i < parser.min
    THEN final(cleanreturn(0, raiseWithFmt(cx,
           Err("TypeError", "Required argument not found", i + 1, 0))))
  ELSE IF num_keywords = 0
    THEN final(cleanreturn(1, cx))
  ELSE With(skipitem(env.f, fp2, cx.va, TRUE), LAMBDA skipped :
         FastLoop([cx EXCEPT !.va = skipped.va], i + 1, skipped.fp, num_keywords, env))

vGetArgsKeywordsFastImpl(cx0, args, usedict, dict, kwnames, kwstack, f, keywords) ==
  With(parserInit(cx0, f, keywords), LAMBDA parser :
  IF ~parser.ok THEN [parser.cx EXCEPT !.ret = 0]
  ELSE
  With(AllocFreelist(parser.cx, parser.pos + parser.keyword_count), LAMBDA fl :
  LET pos == parser.pos
      len == pos + parser.keyword_count
      cx == fl.cx
      nargs == Len(args)
      num_keywords == IF usedict THEN Cardinality(DOMAIN dict) ELSE Len(kwnames)
      env == [args |-> args, usedict |-> usedict, dict |-> dict, kwnames |-> kwnames,
              kwstack |-> kwstack, f |-> f, keywords |-> keywords, len |-> len,
              parser |-> parser]
  IN
  IF ~fl.ok THEN cx
  ELSE IF nargs + num_keywords > len
    THEN cleanreturn(0, raiseWithFmt(cx,
           Err("TypeError", "takes at most arguments", len, nargs + num_keywords)))
  ELSE IF ExceedsMax(parser.max, nargs)
    THEN cleanreturn(0, raiseWithFmt(cx,
           Err("TypeError", IF parser.min # INT_MAX
                              THEN "Function takes at most positional arguments"
                              ELSE "Function takes exactly positional arguments",
               parser.max, nargs)))
  ELSE
  With(FastLoop(cx, 0, 1, num_keywords, env), LAMBDA r :
  LET keys == IF usedict THEN DOMAIN dict ELSE {kwnames[j] : j \in 1 .. Len(kwnames)}
  IN
  IF r.done THEN r.cx
  ELSE IF r.num_keywords > 0 /\
          \E key \in keys : ~isValidKeyword(parser, keywords, parser.keyword_count, key)
    THEN cleanreturn(0, raiseWithFmt(r.cx, Err("TypeError",
           "is an invalid keyword argument for this function", 0, 0)))
  ELSE cleanreturn(1, r.cx))))

(***************************************************************************)
(* Call sites: the static part of a call (format, keyword table, the       *)
(* PY_SSIZE_T_CLEAN variant, the caller's pre-set "es#" buffer length and  *)
(* the type passed for "O!").                                              *)
(***************************************************************************)
Budgets == (0 .. MaxBudget) \cup {NoFail}

\* only the "es"/"et" conversions and a cleanup list longer than the static
\* entries allocate: the budget matters to the descriptors that have them
BudgetsFor(format) ==
  IF \/ \E j \in DOMAIN format : format[j] = "e"
     \/ Len(format) > STATIC_FREELIST_ENTRIES
    THEN Budgets
    ELSE {NoFail}

Site(format, kwlist, sizet, buflen) ==
  [format |-> format, kwlist |-> kwlist, sizet |-> sizet, buflen |-> buflen,
   guard |-> "int", conv |-> "none", budgets |-> BudgetsFor(format),
   objs |-> Objs, kwobjs |-> KwObjs, kwnames |-> KwNames, kwvals |-> KwVals]

\* a call site whose callers pass the objects of objs; conv is what the
\* converter passed for "O&" does
SiteOn(format, kwlist, objs, kwobjs, conv) ==
  [format |-> format, kwlist |-> kwlist, sizet |-> FALSE, buflen |-> 0,
   guard |-> "int", conv |-> conv, budgets |-> BudgetsFor(format),
   objs |-> objs, kwobjs |-> kwobjs, kwnames |-> {"a"}, kwvals |-> kwobjs]

\* one tuple item holding one "s*" more than the static cleanup entries
ManyBuffers ==
  [j \in 1 .. 2 * (STATIC_FREELIST_ENTRIES + 1) + 2 |->
     IF j = 1 THEN "("
     ELSE IF j = 2 * (STATIC_FREELIST_ENTRIES + 1) + 2 THEN ")"
     ELSE IF j % 2 = 0 THEN "s" ELSE "*"]

\* the ints given to the numeric codes, and a site with one numeric item
NumObjs == {"I5", "IOVER", "INEG", "IBIG"}

NumSite(c) == SiteOn(<<c>>, <<"a">>, NumObjs, {"I5", "IBIG"}, "none")

\* the text and bytes values with and without an embedded terminator, and
\* a site with one string code, bare or with '#'
StrObjs == {"SAB", "SNUL", "BNUL"}

StrSite(format) == SiteOn(format, <<"a">>, StrObjs, {"SAB", "SNUL"}, "none")

Sites ==
  << Site(<<"i", "i", "|", "i">>, <<"a", "b", "c">>, FALSE, 0),
     Site(<<"i", "i", "|", "i">>, <<"", "b", "c">>, FALSE, 0),
     Site(<<"s", "#", "O", "!">>, <<"a", "b">>, FALSE, 0),
     Site(<<"e", "s", "#", "i">>, <<"a", "b">>, FALSE, 0),
     Site(<<"e", "s", "#", "i">>, <<"a", "b">>, TRUE, 3),
     Site(<<"s", "*", "e", "s", "|", "y", "*">>, <<"a", "b", "c">>, FALSE, 0),
     Site(<<"w", "*", "i">>, <<"a", "b">>, FALSE, 0),
     Site(<<"(", "i", "s", "*", ")", "i">>, <<"a", "b">>, FALSE, 0),
     Site(<<"i", "|", "$", "i">>, <<"a", "b">>, FALSE, 0),
     Site(<<"i", "$", "i">>, <<"a", "b">>, FALSE, 0),
     Site(<<"i", "i", "|", "i", ";", "m">>, <<"a", "b", "c">>, FALSE, 0),
     Site(<<"i", ":", "f">>, <<"a">>, FALSE, 0),
     Site(<<"e", "t", "i">>, <<"a", "b">>, FALSE, 0),
     Site(<<"|", "i", "i", "i", "i", "i", "i", "i", "i", "i">>,
          <<"a", "b", "c", "d", "e", "f", "g", "h", "i">>, FALSE, 0),
     SiteOn(<<"(", "i", "i", ")">>, <<"a">>,
            {"TII", "T3", "TSI", "SAB", "BXY", "USEQ"}, {"TII", "SAB"}, "none"),
     SiteOn(<<"(", "C", "C", ")">>, <<"a">>, {"SAB", "TII"}, {"SAB"}, "none"),
     SiteOn(<<"i", "(", "i", "C", ")">>, <<"a", "b">>,
            {"I5", "TII", "TIC", "T3"}, {"I5", "TIC"}, "none"),
     SiteOn(<<"i", "(", "(", "i", "C", ")", "i", ")">>, <<"a", "b">>,
            {"I5", "TN"}, {"I5", "TN"}, "none"),
     \* malformed descriptors
     SiteOn(<<"i", "(", "i">>, <<"a", "b">>, {"I5"}, {"I5"}, "none"),
     SiteOn(<<"i", "|", "i", "|", "i">>, <<"a", "b", "c">>, {"I5"}, {"I5"}, "none"),
     SiteOn(<<"i", "$", "i", "|", "i">>, <<"a", "b", "c">>, {"I5"}, {"I5"}, "none"),
     SiteOn(<<"i", "|", "$", "i", "$", "i">>, <<"a", "b", "c">>, {"I5"}, {"I5"}, "none"),
     SiteOn(<<"i", "i">>, <<"a", "">>, {"I5"}, {"I5"}, "none"),
     NumSite("b"), NumSite("B"), NumSite("h"), NumSite("H"), NumSite("i"),
     NumSite("I"), NumSite("n"), NumSite("l"), NumSite("L"),
     SiteOn(<<"k">>, <<"a">>, NumObjs \cup {"F1"}, {"I5", "F1"}, "none"),
     SiteOn(<<"K">>, <<"a">>, NumObjs \cup {"SAB"}, {"I5", "SAB"}, "none"),
     StrSite(<<"s">>), StrSite(<<"s", "#">>), StrSite(<<"z">>), StrSite(<<"z", "#">>),
     StrSite(<<"y">>), StrSite(<<"y", "#">>), StrSite(<<"u">>), StrSite(<<"u", "#">>),
     StrSite(<<"Z">>), StrSite(<<"Z", "#">>),
     SiteOn(<<"O", "&", "i">>, <<"a", "b">>, {"I5", "SAB"}, {"I5", "SAB"}, "ok"),
     SiteOn(<<"O", "&", "i">>, <<"a", "b">>, {"I5", "SAB"}, {"I5", "SAB"}, "cleanup"),
     SiteOn(<<"w", "*">>, <<"a">>, {"WB", "UEXP"}, {"WB", "UEXP"}, "none"),
     SiteOn(<<"y", "*">>, <<"a">>, {"BXY", "UEXP"}, {"BXY", "UEXP"}, "none"),
     SiteOn(ManyBuffers, <<"a">>, {"TMANY", "T2"}, {"TMANY"}, "none") >>

SiteIds == 1 .. Len(Sites)

RECURSIVE SeqsUpTo(_, _)
SeqsUpTo(S, n) ==
  IF n = 0 THEN {<<>>}
  ELSE LET shorter == SeqsUpTo(S, n - 1) IN
       shorter \cup {Append(q, x) : q \in {r \in shorter : Len(r) = n - 1}, x \in S}

\* The positional values of a call.  The binder never looks at a value more
\* than one place past the last item of the descriptor: such values repeat
\* the one before them.
ValueLists(site, objs) ==
  LET n == ScanFormat(Sites[site].format, 1, 0, 0, 0 - 1).max IN
  {a \in SeqsUpTo(objs, MaxArgs) :
     \A j \in DOMAIN a : j > n + 1 => a[j] = a[j - 1]}

ArgLists(site) == ValueLists(site, Sites[site].objs)

KwArgLists(site) == ValueLists(site, Sites[site].kwobjs)

EmptyDict == [k \in {} |-> "I5"]

\* keyword dicts: some of the names, each with a value
KwDicts(site) ==
  UNION {[names -> Sites[site].kwvals] : names \in SUBSET Sites[site].kwnames}

\* the orders in which a kwnames tuple can list the names
Orderings(S) ==
  {q \in [1 .. Cardinality(S) -> S] : \A x \in S : \E j \in DOMAIN q : q[j] = x}

(***************************************************************************)
(* The handle table and the object protocol (ext/Objects/abstract.cpp)     *)
(*                                                                         *)
(* The record rt holds what the protocol functions read and write: the     *)
(* handle of every managed object (liveness, reference count, address,     *)
(* cache slot), the native heap, the caller's Py_buffer structures, the    *)
(* thread's pending error and the result of the last call.  The field own  *)
(* counts the references the caller was handed and has not given back; op  *)
(* names the last call and keeps what it found.                            *)
(***************************************************************************)
\* most references on one handle, and most native allocations of a run
MaxRefs == 2
MaxAllocs == 3

\* the managed objects a native caller works with: a list holding an array
\* and a bytes object
ManagedObjs == {"LST", "ARR", "BYT"}

Views == {1, 2}

Keys == {1, 2, 3}

\* the list's items; the key 3 is out of range
ListItems == <<"ARR", "BYT">>

\* byte length of the array and of the bytes object
ByteLength == [o \in ManagedObjs |-> IF o = "ARR" THEN 2 ELSE 3]

NoHandle == [live |-> FALSE, count |-> 0, id |-> 0, cache |-> 0]

NoView == [obj |-> NullObj, buf |-> 0]

\* a number or the operand of a query: its kind and its value
NoNum == [kind |-> "none", v |-> 0]

NoOp ==
  [name |-> "none", obj |-> NullObj, view |-> 1, arg |-> 0,
   was |-> [o \in ManagedObjs |-> NoHandle], buf |-> 0, heap |-> {},
   l |-> NoNum, r |-> NoNum]

\* the call being run, with the handle table, the view's base pointer and
\* the heap it found
Begin(rt, name, obj, view, arg) ==
  [rt EXCEPT !.err = NoErr, !.rc = 0, !.ret = NullObj,
             !.op = [name |-> name, obj |-> obj, view |-> view, arg |-> arg,
                     was |-> rt.handle,
                     buf |-> rt.view[view].buf, heap |-> rt.heap,
                     l |-> NoNum, r |-> NoNum],
             !.val = NoNum, !.managed = <<>>]

raise(rt, type, text) == [rt EXCEPT !.err = Err(type, text, 0, 0)]

\* ApiHandle::newReference: the handle of a managed object, allocated on
\* the first request, with one more reference
newReference(rt, o) ==
  LET h == rt.handle[o] IN
  IF h.live
    THEN [rt EXCEPT !.handle[o].count = h.count + 1]
    ELSE [rt EXCEPT !.handle[o] = [live |-> TRUE, count |-> 1,
                                    id |-> rt.next, cache |-> 0],
                    !.heap = rt.heap \cup {rt.next},
                    !.next = rt.next + 1]

\* Py_INCREF on a live handle
incref(rt, o) == [rt EXCEPT !.handle[o].count = @ + 1]

\* Py_DECREF: at zero the handle and its cache slot are freed; the slot of
\* a freed handle is poisoned and releasing it again frees nothing
decref(rt, o) ==
  LET h == rt.handle[o] IN
  IF ~h.live
    THEN rt
    ELSE IF h.count > 1
      THEN [rt EXCEPT !.handle[o].count = h.count - 1]
      ELSE [rt EXCEPT !.handle[o] = [h EXCEPT !.live = FALSE, !.count = 0,
                                              !.cache = 0],
                      !.heap = rt.heap \ {h.id, h.cache}]

\* std::malloc: a fresh block, or nullptr when the allocator fails
malloc(rt, ok) ==
  IF ok
    THEN [rt |-> [rt EXCEPT !.heap = rt.heap \cup {rt.next},
                            !.next = rt.next + 1],
          p |-> rt.next]
    ELSE [rt |-> rt, p |-> 0]

\* std::free.  Freeing a block that is not allocated is undefined: the
\* allocator either aborts the process or goes on.
free(rt, p, aborts) ==
  IF p \in rt.heap
    THEN [rt EXCEPT !.heap = rt.heap \ {p}]
    ELSE IF aborts THEN [rt EXCEPT !.fault = "double free"] ELSE rt

\* ApiHandle::cache / ApiHandle::setCache
cache(rt, o) == rt.handle[o].cache

setCache(rt, o, p) == [rt EXCEPT !.handle[o].cache = p]

\* objectGetItem on the list
objectGetItem(rt, obj, key) ==
  IF obj # "LST"
    THEN [rt |-> raise(rt, "TypeError", "object is not subscriptable"),
          o |-> NullObj]
    ELSE IF key \in DOMAIN ListItems
      THEN [rt |-> rt, o |-> ListItems[key]]
      ELSE [rt |-> raise(rt, "IndexError", "list index out of range"),
            o |-> NullObj]

\* a variant that hands out the object without taking a reference
GetItem_borrowed(rt, obj, key) ==
  With(objectGetItem(rt, obj, key), LAMBDA r : [r.rt EXCEPT !.ret = r.o])

GetItem(rt, obj, key) ==
  With(objectGetItem(rt, obj, key), LAMBDA r :
    IF r.o = NullObj
      THEN [r.rt EXCEPT !.ret = NullObj]
      ELSE [newReference(r.rt, r.o) EXCEPT !.ret = r.o])

\* a variant that takes no reference on the exporter
FillInfo_borrowing(rt, view, exporter, buf, len, readonly, flags) ==
  IF flags = PyBUF_WRITABLE /\ readonly = 1
    THEN [raise(rt, "BufferError", "Object is not writable.") EXCEPT !.rc = -1]
    ELSE [rt EXCEPT !.view[view] = [obj |-> exporter, buf |-> buf],
                    !.rc = 0]

FillInfo(rt, view, exporter, buf, len, readonly, flags) ==
  IF flags = PyBUF_WRITABLE /\ readonly = 1
    THEN [raise(rt, "BufferError", "Object is not writable.") EXCEPT !.rc = -1]
    ELSE [(IF exporter # NullObj THEN incref(rt, exporter) ELSE rt)
            EXCEPT !.view[view] = [obj |-> exporter, buf |-> buf],
                   !.rc = 0]

\* the types of the model have no bf_releasebuffer slot
ReleaseBuffer(rt, view) ==
  LET pyobj == rt.view[view].obj IN
  IF pyobj = NullObj
    THEN rt
    ELSE decref([rt EXCEPT !.view[view].obj = NullObj], pyobj)

\* bytesAsString: the bytes' native copy, made once and kept in the cache
bytesAsString(rt, o, ok) ==
  IF cache(rt, o) # 0
    THEN [rt |-> rt, p |-> cache(rt, o)]
    ELSE With(malloc(rt, ok), LAMBDA m :
           IF m.p = 0
             THEN [rt |-> m.rt, p |-> 0]
             ELSE [rt |-> setCache(m.rt, o, m.p), p |-> m.p])

GetBuffer(rt, obj, view, flags, ok, aborts) ==
  CASE obj = "BYT" ->
         With(bytesAsString(rt, obj, ok), LAMBDA b :
           IF b.p = 0
             THEN [b.rt EXCEPT !.rc = -1]
             ELSE FillInfo(b.rt, view, obj, b.p, ByteLength[obj], 1, flags))
    [] obj = "ARR" ->
         With(IF cache(rt, obj) # 0
                THEN free(rt, cache(rt, obj), aborts)
                ELSE rt,
              LAMBDA r1 :
           IF r1.fault # ""
             THEN r1
             ELSE With(malloc(r1, ok), LAMBDA m :
                    IF m.p = 0
                      THEN [m.rt EXCEPT !.rc = -1]
                      ELSE FillInfo(setCache(m.rt, obj, m.p), view, obj, m.p,
                                    ByteLength[obj], 1, flags)))
    [] OTHER ->
         [raise(rt, "TypeError", "a bytes-like object is required")
            EXCEPT !.rc = -1]

\* the protocol state after construction: the module holds the list
InitRt ==
  [handle |-> [o \in ManagedObjs |->
                 IF o = "LST"
                   THEN [live |-> TRUE, count |-> 1, id |-> 1, cache |-> 0]
                   ELSE NoHandle],
   heap |-> {1}, next |-> 2,
   view |-> [v \in Views |-> NoView],
   own |-> [o \in ManagedObjs |-> 0],
   op |-> NoOp, err |-> NoErr, rc |-> 0, ret |-> NullObj, fault |-> "",
   val |-> NoNum, managed |-> <<>>]

\* the counters of a run stay within the bounds of the model
InBounds(rt) ==
  /\ \A o \in ManagedObjs : rt.handle[o].count <= MaxRefs
  /\ rt.next <= MaxAllocs + 2

(***************************************************************************)
(* Length queries and addition.  A machine word has LongBits bits; an      *)
(* immediate small integer has one bit less.                               *)
(***************************************************************************)
SmallBits == LongBits - 1
MaxSmallInt == 2 ^ (SmallBits - 1) - 1
MinSmallInt == 0 - MaxSmallInt - 1

\* the value of a word-sized pattern: two's complement on LongBits bits
AsSigned(v, bits) ==
  IF Mask(v, bits) >= 2 ^ (bits - 1) THEN Mask(v, bits) - 2 ^ bits
  ELSE Mask(v, bits)

\* Int::numDigits: one digit is one machine word
numDigits(v) == IF v >= LONG_MIN /\ v <= LONG_MAX THEN 1 ELSE 2

\* Int::asWord: the lowest digit
asWord(v) == AsSigned(v, LongBits)

\* Runtime::newInt: an immediate when the word fits, a heap integer otherwise
newInt(w) ==
  IF w >= MinSmallInt /\ w <= MaxSmallInt
    THEN [kind |-> "smallint", v |-> w]
    ELSE [kind |-> "largeint", v |-> w]

IsInt(x) == x.kind \in {"smallint", "largeint"}

\* the managed call of a method or function, noted in the record
invoke(rt, name) == [rt EXCEPT !.managed = Append(@, name)]

\* The operands of a length query by what their type's __len__ does: the
\* type has none, it raises, it returns something that is no integer, or it
\* returns an integer.
LenValues ==
  {MinSmallInt, 0 - 1, 0, 3, MaxSmallInt, LONG_MAX, LONG_MAX + 1,
   LONG_MIN - 1, 2 ^ LongBits + 3}

Lenders ==
  {[kind |-> k, v |-> 0] : k \in {"null", "missing", "raises", "nonint"}}
    \cup {[kind |-> "len", v |-> n] : n \in LenValues}

\* Thread::invokeMethod1(obj, __len__): Error::notFound when the lookup on
\* the type misses, Error::exception when the method raises
invokeLen(rt, x) ==
  CASE x.kind = "missing" -> [rt |-> rt, r |-> "notFound", v |-> NoNum]
    [] x.kind = "raises" ->
         [rt |-> raise(invoke(rt, "__len__"), "UserError", "raised by __len__"),
          r |-> "exception", v |-> NoNum]
    [] x.kind = "nonint" ->
         [rt |-> invoke(rt, "__len__"), r |-> "ok",
          v |-> [kind |-> "object", v |-> 0]]
    [] OTHER -> [rt |-> invoke(rt, "__len__"), r |-> "ok", v |-> newInt(x.v)]

\* intFromIndex: an integer as it is; anything else has no __index__ here
intFromIndex(rt, x) ==
  IF IsInt(x)
    THEN [rt |-> rt, ok |-> TRUE, v |-> x.v]
    ELSE [rt |-> raise(rt, "TypeError",
                       "object cannot be interpreted as an integer"),
          ok |-> FALSE, v |-> 0]

nullError(rt) ==
  IF rt.err.type = "none"
    THEN raise(rt, "SystemError", "null argument to internal routine")
    ELSE rt

\* a variant that returns the lowest word of any non-negative length
objectLength_truncating(rt, x) ==
  IF x.kind = "null" THEN [nullError(rt) EXCEPT !.rc = -1]
  ELSE With(invokeLen(rt, x), LAMBDA c :
    IF c.r # "ok"
      THEN [(IF c.r = "notFound"
               THEN raise(c.rt, "TypeError", "object has no len()")
               ELSE c.rt) EXCEPT !.rc = -1]
      ELSE With(intFromIndex(c.rt, c.v), LAMBDA i :
        IF ~i.ok THEN [i.rt EXCEPT !.rc = -1]
        ELSE IF i.v < 0
          THEN [raise(i.rt, "ValueError", "__len__() should return >= 0")
                  EXCEPT !.rc = -1]
        ELSE [i.rt EXCEPT !.rc = asWord(i.v)]))

\* a variant that reports every failure of the call as a missing method
objectLength_masking(rt, x) ==
  IF x.kind = "null" THEN [nullError(rt) EXCEPT !.rc = -1]
  ELSE With(invokeLen(rt, x), LAMBDA c :
    IF c.r # "ok"
      THEN [raise(c.rt, "TypeError", "object has no len()") EXCEPT !.rc = -1]
      ELSE With(intFromIndex(c.rt, c.v), LAMBDA i :
        IF ~i.ok THEN [i.rt EXCEPT !.rc = -1]
        ELSE IF i.v < 0
          THEN [raise(i.rt, "ValueError", "__len__() should return >= 0")
                  EXCEPT !.rc = -1]
        ELSE IF numDigits(i.v) > 1
          THEN [raise(i.rt, "OverflowError",
                      "cannot fit into an index-sized integer")
                  EXCEPT !.rc = -1]
        ELSE [i.rt EXCEPT !.rc = asWord(i.v)]))

objectLength(rt, x) ==
  IF x.kind = "null" THEN [nullError(rt) EXCEPT !.rc = -1]
  ELSE With(invokeLen(rt, x), LAMBDA c :
    IF c.r # "ok"
      THEN [(IF c.r = "notFound"
               THEN raise(c.rt, "TypeError", "object has no len()")
               ELSE c.rt) EXCEPT !.rc = -1]
      ELSE With(intFromIndex(c.rt, c.v), LAMBDA i :
        IF ~i.ok THEN [i.rt EXCEPT !.rc = -1]
        ELSE IF i.v < 0
          THEN [raise(i.rt, "ValueError", "__len__() should return >= 0")
                  EXCEPT !.rc = -1]
        ELSE IF numDigits(i.v) > 1
          THEN [raise(i.rt, "OverflowError",
                      "cannot fit into an index-sized integer")
                  EXCEPT !.rc = -1]
        ELSE [i.rt EXCEPT !.rc = asWord(i.v)]))

\* the operands of an addition: immediate integers, a heap integer and an
\* object that is no number
Numbers ==
  {newInt(n) : n \in {MinSmallInt, 0 - 1, 0, 1, MaxSmallInt, MaxSmallInt + 1}}
    \cup {[kind |-> "object", v |-> 0]}

\* the new reference to a result object
Result(rt, x) == [rt EXCEPT !.ret = "RESULT", !.val = x]

\* a variant whose sum stays an immediate: the word is cut to its width
smallIntAdd_narrow(rt, left, right) ==
  IF left.kind = "smallint" /\ right.kind = "smallint"
    THEN Result(rt, [kind |-> "smallint",
                     v |-> AsSigned(left.v + right.v, SmallBits)])
    ELSE [rt EXCEPT !.ret = NullObj]

\* the sum of two immediates is computed on machine words
smallIntAdd(rt, left, right) ==
  IF left.kind = "smallint" /\ right.kind = "smallint"
    THEN Result(rt, newInt(AsSigned(left.v + right.v, LongBits)))
    ELSE [rt EXCEPT !.ret = NullObj]

\* doBinaryOp: the managed operator function called with both operands;
\* integers add without bound, the object of the model supports no addition
doBinaryOp(rt, op, left, right) ==
  With(invoke(rt, op), LAMBDA r :
    IF IsInt(left) /\ IsInt(right)
      THEN Result(r, newInt(left.v + right.v))
      ELSE [raise(r, "TypeError", "unsupported operand type(s)")
              EXCEPT !.ret = NullObj])

Add(rt, left, right) ==
  With(smallIntAdd(rt, left, right), LAMBDA f :
    IF f.ret # NullObj THEN f ELSE doBinaryOp(f, "add", left, right))

InPlaceAdd(rt, left, right) ==
  With(smallIntAdd(rt, left, right), LAMBDA f :
    IF f.ret # NullObj THEN f ELSE doBinaryOp(f, "iadd", left, right))

(***************************************************************************)
(* State                                                                   *)
(***************************************************************************)
VARIABLES pc, call, cx, rt

vars == <<pc, call, cx, rt>>

NewContext(site, budget) ==
  [va |-> 0, out |-> <<>>, fl |-> <<>>, malloced |-> 0,
   capacity |-> STATIC_FREELIST_ENTRIES,
   heap |-> {}, nextptr |-> 1, allocs |-> 0, freed |-> <<>>, inv |-> <<>>,
   ref |-> [o \in AllObjs |-> 0],
   err |-> NoErr, replaced |-> FALSE, raises |-> 0,
   budget |-> budget, abort |-> "", ret |-> -1,
   sizet |-> Sites[site].sizet, buflen |-> Sites[site].buflen,
   guard |-> Sites[site].guard, conv |-> Sites[site].conv,
   fetched |-> <<>>, convcalls |-> <<>>, user |-> <<>>]

NoCall == [entry |-> "none", site |-> 1, args |-> <<>>, kw |-> EmptyDict]

Init ==
  /\ pc = "idle"
  /\ call = NoCall
  /\ cx = NewContext(1, NoFail)
  /\ rt = InitRt

\* addcleanup checks no bound.  A call that registered more entries than
\* the array holds wrote past it, which is undefined: the call either goes
\* on as if the array had room, or the process is aborted.
Outcomes(result) ==
  IF Len(result.fl) > result.capacity /\ result.abort = ""
    THEN {result, [result EXCEPT !.abort = "write past the cleanup entries"]}
    ELSE {result}

\* the state a call leaves behind: the budget belongs to the allocator
Finish(entry, site, args, kw, result) ==
  \E outcome \in Outcomes(result) :
    /\ pc' = IF outcome.abort # "" THEN "aborted" ELSE "returned"
    /\ call' = [entry |-> entry, site |-> site, args |-> args, kw |-> kw]
    /\ cx' = [outcome EXCEPT !.budget = NoFail]
    /\ UNCHANGED rt

\* PyArg_ParseTuple / _PyArg_ParseTuple_SizeT / _PyArg_ParseStack
vgetargs1(cx0, args, f) == vGetArgs1Impl(cx0, NullObj, args, f, FALSE)

PyArg_ParseTuple ==
  /\ pc = "idle"
  /\ \E site \in SiteIds : \E budget \in Sites[site].budgets :
     \E args \in ArgLists(site) :
       Finish("PyArg_ParseTuple", site, args, EmptyDict,
              vgetargs1(NewContext(site, budget), args, Sites[site].format))

\* PyArg_Parse: the old-style call with one object (or none)
PyArg_Parse ==
  /\ pc = "idle"
  /\ \E site \in SiteIds : \E budget \in Sites[site].budgets :
     \E arg \in Sites[site].objs \cup {NullObj} :
       Finish("PyArg_Parse", site, <<arg>>, EmptyDict,
              vGetArgs1Impl(NewContext(site, budget), arg, <<>>,
                            Sites[site].format, TRUE))

\* PyArg_ParseTupleAndKeywords and its _SizeT / Va variants
PyArg_ParseTupleAndKeywords ==
  /\ pc = "idle"
  /\ \E site \in SiteIds : \E budget \in Sites[site].budgets :
     \E args \in KwArgLists(site), kw \in KwDicts(site) :
       Finish("PyArg_ParseTupleAndKeywords", site, args, kw,
              vgetargskeywords(NewContext(site, budget), args, kw,
                               Sites[site].format, Sites[site].kwlist))

\* _PyArg_ParseTupleAndKeywordsFast: a tuple and a keyword dict
PyArg_ParseTupleAndKeywordsFast ==
  /\ pc = "idle"
  /\ \E site \in SiteIds : \E budget \in Sites[site].budgets :
     \E args \in KwArgLists(site), kw \in KwDicts(site) :
       Finish("PyArg_ParseTupleAndKeywordsFast", site, args, kw,
              vGetArgsKeywordsFastImpl(NewContext(site, budget), args, TRUE, kw,
                                       <<>>, <<>>,
                                       Sites[site].format, Sites[site].kwlist))

\* _PyArg_ParseStackAndKeywords: a stack of values and the kwnames tuple
PyArg_ParseStackAndKeywords ==
  /\ pc = "idle"
  /\ \E site \in SiteIds : \E budget \in Sites[site].budgets :
     \E args \in KwArgLists(site), kw \in KwDicts(site) :
       \E kwnames \in Orderings(DOMAIN kw) :
         Finish("PyArg_ParseStackAndKeywords", site, args, kw,
                vGetArgsKeywordsFastImpl(NewContext(site, budget), args, FALSE,
                                         EmptyDict, kwnames,
                                         [j \in 1 .. Len(kwnames) |-> kw[kwnames[j]]],
                                         Sites[site].format, Sites[site].kwlist))

\* the caller consumes the result
Return ==
  /\ pc \in {"returned"}
  /\ pc' = "idle"
  /\ call' = NoCall
  /\ cx' = NewContext(1, NoFail)
  /\ UNCHANGED rt

Next ==
  \/ PyArg_ParseTuple
  \/ PyArg_Parse
  \/ PyArg_ParseTupleAndKeywords
  \/ PyArg_ParseTupleAndKeywordsFast
  \/ PyArg_ParseStackAndKeywords
  \/ Return

Spec == Init /\ [][Next]_vars

(***************************************************************************)
(* The object protocol as a state machine: a native caller takes items     *)
(* out of the list, gives references back, and gets and releases buffers.  *)
(***************************************************************************)
\* a step of a process that has not been aborted
Run(r) ==
  /\ rt.fault = ""
  /\ InBounds(r)
  /\ rt' = r
  /\ UNCHANGED <<pc, call, cx>>

\* the caller owns the reference it is handed
PyObject_GetItem ==
  \E obj \in ManagedObjs, key \in Keys :
    /\ rt.handle[obj].live
    /\ With(GetItem(Begin(rt, "PyObject_GetItem", obj, 1, key), obj, key),
            LAMBDA r :
         Run(IF r.ret = NullObj THEN r ELSE [r EXCEPT !.own[r.ret] = @ + 1]))

\* the caller gives back a reference it owns, or releases once more a
\* handle that is already freed
Py_DecRef ==
  \E o \in ManagedObjs :
    /\ \/ rt.own[o] > 0
       \/ ~rt.handle[o].live /\ rt.handle[o].id > 0
    /\ Run([decref(Begin(rt, "Py_DecRef", o, 1, 0), o)
              EXCEPT !.own[o] = IF @ > 0 THEN @ - 1 ELSE 0])

\* PyObject_GetBuffer into a Py_buffer that is not in use
Call_GetBuffer ==
  \E obj \in ManagedObjs, v \in Views :
  \E flags \in {PyBUF_SIMPLE, PyBUF_WRITABLE} :
  \E ok \in IF obj = "ARR" \/ (obj = "BYT" /\ rt.handle[obj].cache = 0)
               THEN BOOLEAN ELSE {TRUE} :
  \E aborts \in IF rt.handle[obj].cache \in rt.heap \cup {0}
                   THEN {FALSE} ELSE BOOLEAN :
    /\ rt.handle[obj].live
    /\ rt.view[v].obj = NullObj
    /\ Run(GetBuffer(Begin(rt, "PyObject_GetBuffer", obj, v, flags),
                     obj, v, flags, ok, aborts))

\* PyBuffer_Release, also of a view that is released already
Call_ReleaseBuffer ==
  \E v \in Views :
    Run(ReleaseBuffer(Begin(rt, "PyBuffer_Release", rt.view[v].obj, v, 0), v))

HNext ==
  \/ PyObject_GetItem
  \/ Py_DecRef
  \/ Call_GetBuffer
  \/ Call_ReleaseBuffer

HandleSpec == Init /\ [][HNext]_vars

(***************************************************************************)
(* The queries as a state machine: a native caller asks for lengths and    *)
(* sums.                                                                   *)
(***************************************************************************)
LengthEntries ==
  {"PyObject_Size", "PyObject_Length", "PySequence_Size", "PySequence_Length",
   "PyMapping_Size", "PyMapping_Length"}

\* PyObject_Size and its five synonyms
PyObject_Size ==
  \E entry \in LengthEntries, x \in Lenders :
    Run(objectLength([Begin(rt, entry, NullObj, 1, 0) EXCEPT !.op.l = x], x))

PyNumber_Add ==
  \E left \in Numbers, right \in Numbers :
    Run(Add([Begin(rt, "PyNumber_Add", NullObj, 1, 0)
               EXCEPT !.op.l = left, !.op.r = right], left, right))

PyNumber_InPlaceAdd ==
  \E left \in Numbers, right \in Numbers :
    Run(InPlaceAdd([Begin(rt, "PyNumber_InPlaceAdd", NullObj, 1, 0)
                      EXCEPT !.op.l = left, !.op.r = right], left, right))

QNext ==
  \/ PyObject_Size
  \/ PyNumber_Add
  \/ PyNumber_InPlaceAdd

QuerySpec == Init /\ [][QNext]_vars

(***************************************************************************)
(* Properties of the binder                                                *)
(***************************************************************************)
Returned == pc = "returned"

Failed == Returned /\ cx.ret = 0

Succeeded == Returned /\ cx.ret = 1

KeywordEntries ==
  {"PyArg_ParseTupleAndKeywords", "PyArg_ParseTupleAndKeywordsFast",
   "PyArg_ParseStackAndKeywords"}

Occurrences(q, e) == Cardinality({j \in DOMAIN q : q[j] = e})

Reverse(q) == [j \in 1 .. Len(q) |-> q[Len(q) + 1 - j]]

\* C1: every registered cleanup entry is invoked exactly once when the call
\* returns failure and none is invoked when it returns success; no destructor
\* is invoked for something that was never registered.
C1_CleanupExactlyOnce ==
  Returned =>
    /\ cx.ret = 1 => cx.inv = <<>>
    /\ cx.ret = 0 =>
         /\ Len(cx.inv) = Len(cx.fl)
         /\ \A j \in DOMAIN cx.fl :
              Occurrences(cx.inv, cx.fl[j]) = Occurrences(cx.fl, cx.fl[j])
    /\ \A j \in DOMAIN cx.inv : \E k \in DOMAIN cx.fl : cx.inv[j] = cx.fl[k]

\* a failed call that had registered an allocated block and a buffer view
C1_Witness ==
  /\ Failed
  /\ \E j, k \in DOMAIN cx.fl :
       /\ cx.fl[j].destructor = "cleanup_ptr"
       /\ cx.fl[k].destructor = "cleanup_buffer"
  /\ Len(cx.inv) = Len(cx.fl)

\* C2: a call that returns 0 leaves an error pending, and no error raised
\* during the call was overwritten by a later one.
C2_OneErrorOnFailure ==
  Failed => /\ cx.err.type # "none"
            /\ ~cx.replaced

\* a failed call whose item conversion raised the error itself, so that
\* seterror found one pending
C2_Witness ==
  /\ Failed
  /\ cx.err.text = "an integer is required"
  /\ ~cx.replaced

(***************************************************************************)
(* The output slots of a descriptor, item by item.  A code's input         *)
(* pointers (the encoding of "es"/"et", the type of "O!") take a slot of   *)
(* the variable arguments but are never written.                           *)
(***************************************************************************)
ItemShape(f, fp) ==
  LET c == At(f, fp)
      n == At(f, fp + 1)
      nn == At(f, fp + 2)
  IN
  IF c = "e"
    THEN IF nn = "#" THEN [len |-> 3, ins |-> 1, outs |-> 2]
         ELSE [len |-> 2, ins |-> 1, outs |-> 1]
  ELSE IF c \in StringCodes
    THEN IF n = "#" THEN [len |-> 2, ins |-> 0, outs |-> 2]
         ELSE IF n = "*" THEN [len |-> 2, ins |-> 0, outs |-> 1]
         ELSE [len |-> 1, ins |-> 0, outs |-> 1]
  ELSE IF c = "O" /\ n \in {"!", "&"}
    THEN [len |-> 2, ins |-> 1, outs |-> 1]
  ELSE [len |-> 1, ins |-> 0, outs |-> 1]

\* the set of [item, slot]: slot is an output of top-level item number item
RECURSIVE DescriptorOutputs(_, _, _, _, _)
DescriptorOutputs(f, fp, va, level, item) ==
  LET c == At(f, fp) IN
  IF IS_END_OF_FORMAT(c) THEN {}
  ELSE IF c \in {"|", "$"} THEN DescriptorOutputs(f, fp + 1, va, level, item)
  ELSE IF c = "(" THEN DescriptorOutputs(f, fp + 1, va, level + 1, item)
  ELSE IF c = ")"
    THEN DescriptorOutputs(f, fp + 1, va, level - 1,
                           IF level = 1 THEN item + 1 ELSE item)
  ELSE LET sh == ItemShape(f, fp) IN
       {[item |-> item, slot |-> n] : n \in va + sh.ins + 1 .. va + sh.ins + sh.outs}
         \cup DescriptorOutputs(f, fp + sh.len, va + sh.ins + sh.outs, level,
                                IF level = 0 THEN item + 1 ELSE item)

OutputsOf(site) == DescriptorOutputs(Sites[site].format, 1, 0, 0, 0)

\* item number item (0-based) received a value in the current call
Supplied(item) ==
  \/ item < Len(call.args) /\ call.args[item + 1] # NullObj
  \/ /\ call.entry \in KeywordEntries
     /\ item < Len(Sites[call.site].kwlist)
     /\ Sites[call.site].kwlist[item + 1] \in DOMAIN call.kw

Written(slot) == slot \in DOMAIN cx.out

\* C3 as stated: after a successful call every output of the descriptor has
\* been written, those of optional items that received no value included.
C3_AllOutputsWritten ==
  Succeeded => \A r \in OutputsOf(call.site) : Written(r.slot)

\* C3 as the code has it: after a successful call the outputs of the items
\* that received a value are written, and the outputs of the optional items
\* that received none are left as the caller had them.
C3_SuppliedOutputsWritten ==
  Succeeded => \A r \in OutputsOf(call.site) : Written(r.slot) <=> Supplied(r.item)

\* a successful call that left an optional item without a value
C3_Witness ==
  /\ Succeeded
  /\ \E r \in OutputsOf(call.site) : Supplied(r.item) /\ Written(r.slot)
  /\ \E r \in OutputsOf(call.site) : ~Supplied(r.item) /\ ~Written(r.slot)

BlockSlots == {n \in DOMAIN cx.out : n >= 1 /\ cx.out[n].p # 0}

\* the output slots that hold a buffer view with an exporter attached
ViewSlots ==
  {n \in DOMAIN cx.out : n >= 1 /\ cx.out[n].t = "view" /\ cx.out[n].obj # NullObj}

WasFreed(p) == \E j \in DOMAIN cx.freed : cx.freed[j] = p

\* C5: after a failed call no output slot still points to a block that the
\* cleanup of this call has freed.
C5_NoDanglingOutput ==
  Failed => \A n \in BlockSlots : ~WasFreed(cx.out[n].p)

C7_RefcountsRestored ==
  Failed => \A o \in AllObjs : cx.ref[o] = 0

(***************************************************************************)
(* Arity of a positional call                                              *)
(***************************************************************************)
Scanned(site) == ScanFormat(Sites[site].format, 1, 0, 0, 0 - 1)

MaxOf(site) == Scanned(site).max

MinOf(site) == IF Scanned(site).min < 0 THEN MaxOf(site) ELSE Scanned(site).min

ArityTexts == {"takes exactly", "takes at least", "takes at most"}

\* the wording the claim gives for n values against [min, max]
StatedArityText(min, max, n) ==
  IF min = max THEN "takes exactly"
  ELSE IF n < min THEN "takes at least" ELSE "takes at most"

NothingConverted == cx.out = <<>> /\ cx.va = 0 /\ cx.fl = <<>>

PositionalCall == Returned /\ call.entry = "PyArg_ParseTuple"

OutOfRange == Len(call.args) < MinOf(call.site) \/ Len(call.args) > MaxOf(call.site)

\* C8 as stated: a positional call passes the arity check iff min <= n <= max;
\* otherwise it fails with a TypeError that says "at least min", "at most max"
\* or "exactly", and nothing is converted or written.
C8_ArityMessageAlways ==
  PositionalCall =>
    IF OutOfRange
      THEN /\ cx.ret = 0
           /\ cx.err.type = "TypeError"
           /\ cx.err.text = StatedArityText(MinOf(call.site), MaxOf(call.site),
                                            Len(call.args))
           /\ cx.err.a = IF Len(call.args) < MinOf(call.site)
                           THEN MinOf(call.site) ELSE MaxOf(call.site)
           /\ NothingConverted
      ELSE cx.err.text \notin ArityTexts

\* C8 as the code has it: the same, except that a descriptor with a
\* ";message" part fails the arity check with that message as the TypeError
\* text in place of the "at least"/"at most"/"exactly" wording.
C8_ArityCheck ==
  PositionalCall =>
    IF OutOfRange
      THEN /\ cx.ret = 0
           /\ cx.err.type = "TypeError"
           /\ IF Scanned(call.site).message # 0
                THEN cx.err.text = "<custom message>"
                ELSE /\ cx.err.text = StatedArityText(MinOf(call.site), MaxOf(call.site),
                                                      Len(call.args))
                     /\ cx.err.a = IF Len(call.args) < MinOf(call.site)
                                     THEN MinOf(call.site) ELSE MaxOf(call.site)
                     /\ cx.err.b = Len(call.args)
           /\ NothingConverted
      ELSE cx.err.text \notin ArityTexts

\* "ii|i" with four values: rejected with "at most 3", nothing written
C8_Witness ==
  /\ PositionalCall
  /\ Sites[call.site].format = <<"i", "i", "|", "i">>
  /\ Len(call.args) = 4
  /\ cx.ret = 0
  /\ cx.err.text = "takes at most"
  /\ cx.err.a = 3
  /\ NothingConverted

(***************************************************************************)
(* Keyword calls                                                           *)
(***************************************************************************)
KeywordCall == Returned /\ call.entry \in KeywordEntries

\* the items of the current call given a value at their position and by name
Duplicated ==
  {i \in 0 .. Len(Sites[call.site].kwlist) - 1 :
     /\ i < Len(call.args)
     /\ Sites[call.site].kwlist[i + 1] # ""
     /\ Sites[call.site].kwlist[i + 1] \in DOMAIN call.kw}

FirstDuplicated == CHOOSE i \in Duplicated : \A j \in Duplicated : i <= j

\* the descriptor of the site as parserInit sees it
ParserOf(site) ==
  parserInit(NewContext(site, NoFail), Sites[site].format, Sites[site].kwlist)

\* the values at positions 0 .. d-1 are accepted by their items
RECURSIVE PrefixConverts(_, _, _, _, _)
PrefixConverts(c, f, fp0, j, d) ==
  IF j >= d THEN TRUE
  ELSE LET fp1 == IF At(f, fp0) = "|" THEN fp0 + 1 ELSE fp0
           fp2 == IF At(f, fp1) = "$" THEN fp1 + 1 ELSE fp1
           r == convertitem(c, call.args[j + 1], f, fp2)
       IN r.msg.null /\ r.cx.abort = "" /\ PrefixConverts(r.cx, f, r.fp, j + 1, d)

\* nothing is checked before the first duplicated item that fails: the
\* descriptor is well formed, the counts fit, the earlier values convert
ReachesDuplicate ==
  /\ ParserOf(call.site).ok
  /\ Len(call.args) + Cardinality(DOMAIN call.kw) <= Len(Sites[call.site].kwlist)
  /\ Len(call.args) <= ParserOf(call.site).max
  /\ PrefixConverts(NewContext(call.site, NoFail), Sites[call.site].format, 1, 0,
                    FirstDuplicated)
  /\ cx.err.type # "MemoryError"

NameAndPosition(i) ==
  /\ cx.err.type = "TypeError"
  /\ cx.err.text = "Argument given by name and position"
  /\ cx.err.a = i + 1

\* C9 as stated: a keyword call in which some item is given both at its
\* position and by its name fails with the "Argument given by name and
\* position" TypeError.
C9_DuplicateAlwaysNamed ==
  (KeywordCall /\ Duplicated # {}) =>
    cx.ret = 0 /\ cx.err.text = "Argument given by name and position"

\* C9 as the code has it: such a call always fails; the error is the
\* "Argument given by name and position" TypeError for the first such item
\* when the descriptor is well formed, the cleanup array was allocated, the
\* number of values does not exceed the number of items or of positional
\* items, and the values before that item convert.  Otherwise the error of
\* the earlier check is the one reported.
C9_DuplicateFails ==
  (KeywordCall /\ Duplicated # {}) =>
    /\ cx.ret = 0
    /\ ReachesDuplicate => NameAndPosition(FirstDuplicated)

\* the second item given twice, reported with its position, on each path
C9_Witness ==
  /\ KeywordCall
  /\ call.entry = "PyArg_ParseStackAndKeywords"
  /\ Duplicated = {1}
  /\ ReachesDuplicate
  /\ cx.ret = 0
  /\ NameAndPosition(1)

\* the names a keyword of the call may match
Declared(site) ==
  {Sites[site].kwlist[j] : j \in 1 .. Len(Sites[site].kwlist)} \ {""}

\* C10: a keyword call whose keywords include a name that no item declares
\* returns failure.
C10_UnmatchedKeywordFails ==
  (KeywordCall /\ \E key \in DOMAIN call.kw : key \notin Declared(call.site)) =>
    cx.ret = 0

\* every item resolved, one keyword left over: reported as invalid
C10_Witness ==
  /\ KeywordCall
  /\ \E key \in DOMAIN call.kw : key \notin Declared(call.site)
  /\ Len(call.args) >= MinOf(call.site)
  /\ cx.ret = 0
  /\ cx.err.text = "is an invalid keyword argument for this function"

(***************************************************************************)
(* Required items of a keyword call                                        *)
(***************************************************************************)
PosOf(site) == CountPositionalOnly(Sites[site].kwlist, 0)

\* the number of top-level items before the '|' split (all of them when
\* there is no '|')
RECURSIVE RequiredFrom(_, _)
RequiredFrom(f, fp) ==
  IF At(f, fp) = "|" \/ IS_END_OF_FORMAT(At(f, fp)) THEN 0
  ELSE IF At(f, fp) = "$" THEN RequiredFrom(f, fp + 1)
  ELSE With(skipitem(f, fp, 0, FALSE), LAMBDA r :
         IF r.msg # "" THEN 0 ELSE 1 + RequiredFrom(f, r.fp))

\* the required items of the current call that received no value
Unresolved ==
  {i \in 0 .. RequiredFrom(Sites[call.site].format, 1) - 1 : ~Supplied(i)}

FirstUnresolved == CHOOSE i \in Unresolved : \A j \in Unresolved : i <= j

PositionalStyle ==
  /\ cx.err.type = "TypeError"
  /\ cx.err.text \in {"Function takes at least positional arguments",
                      "Function takes exactly positional arguments"}

KeywordStyle(i) ==
  /\ cx.err.type = "TypeError"
  /\ cx.err.text = "Required argument not found"
  /\ cx.err.a = i + 1

MissingStyle(i) ==
  IF i < PosOf(call.site) THEN PositionalStyle ELSE KeywordStyle(i)

\* the value item j of the current keyword call is bound to
ValueOf(j) ==
  IF j < Len(call.args) THEN call.args[j + 1]
  ELSE call.kw[Sites[call.site].kwlist[j + 1]]

\* the items 0 .. d-1 all have a value, given once, that their code accepts
RECURSIVE PrefixBinds(_, _, _, _, _)
PrefixBinds(c, f, fp0, j, d) ==
  IF j >= d THEN TRUE
  ELSE /\ Supplied(j)
       /\ j \notin Duplicated
       /\ With(convertitem(c, ValueOf(j), f,
                           With(IF At(f, fp0) = "|" THEN fp0 + 1 ELSE fp0, LAMBDA fp1 :
                             IF At(f, fp1) = "$" THEN fp1 + 1 ELSE fp1)),
               LAMBDA r : /\ r.msg.null
                          /\ r.cx.abort = ""
                          /\ PrefixBinds(r.cx, f, r.fp, j + 1, d))

\* the binding gets as far as the first unresolved required item: the
\* descriptor is well formed, the counts fit, the items before it bind
ReachesUnresolved ==
  /\ ParserOf(call.site).ok
  /\ Len(call.args) + Cardinality(DOMAIN call.kw) <= Len(Sites[call.site].kwlist)
  /\ Len(call.args) <= ParserOf(call.site).max
  /\ PrefixBinds(NewContext(call.site, NoFail), Sites[call.site].format, 1, 0,
                 FirstUnresolved)
  /\ cx.err.type # "MemoryError"

C11_NamedItemMissing ==
  /\ KeywordCall
  /\ Unresolved # {}
  /\ ReachesUnresolved
  /\ FirstUnresolved >= PosOf(call.site)
  /\ FirstUnresolved >= 1
  /\ KeywordStyle(FirstUnresolved)

RECURSIVE ItemPos(_, _, _)
ItemPos(f, fp0, i) ==
  LET fp1 == IF At(f, fp0) = "|" THEN fp0 + 1 ELSE fp0
      fp2 == IF At(f, fp1) = "$" THEN fp1 + 1 ELSE fp1
  IN IF i = 0 THEN fp2 ELSE ItemPos(f, skipitem(f, fp2, 0, FALSE).fp, i - 1)

IsTupleItem(site, i) ==
  /\ i < MaxOf(site)
  /\ At(Sites[site].format, ItemPos(Sites[site].format, 1, i)) = "("

\* the positional values of the current call that meet a nested-tuple spec
AtTuplePosition ==
  {i \in 0 .. Len(call.args) - 1 : IsTupleItem(call.site, i)}

Textual(o) == Kind(o) \in {"str", "bytes"}

FetchedFrom(o) == \E j \in DOMAIN cx.fetched : cx.fetched[j].seq = o

\* C12: a str or bytes value at a nested-tuple position is rejected: the call
\* fails, and no element of a str or bytes value is ever fetched.
C12_TextNotIterated ==
  Returned =>
    /\ \A o \in AllObjs : Textual(o) => ~FetchedFrom(o)
    /\ (\E i \in AtTuplePosition : Textual(call.args[i + 1])) => cx.ret = 0

\* what the code keeps of it: a bytes value is never iterated
C12_BytesNotIterated ==
  Returned => \A o \in AllObjs : Kind(o) = "bytes" => ~FetchedFrom(o)

\* the number of items of the tuple spec that is top-level item i
TupleArity(site, i) ==
  CountTupleItems(Sites[site].format, ItemPos(Sites[site].format, 1, i) + 1, 0, 0)

\* the binding of a positional call gets as far as item i
ReachesItem(i) ==
  /\ ~OutOfRange
  /\ PrefixConverts(NewContext(call.site, NoFail), Sites[call.site].format, 1, 0, i)
  /\ cx.err.type # "MemoryError"

TupleOutputsUnwritten(i) ==
  \A r \in OutputsOf(call.site) : r.item = i => ~Written(r.slot)

LengthMismatch(n, len) ==
  /\ cx.err.type = "TypeError"
  /\ cx.err.text = "must be sequence of length %d, not %d"
  /\ cx.err.ma = n
  /\ cx.err.mb = len

\* C13: a sequence bound to a nested-tuple spec of n items has its elements
\* fetched and bound when its length is n; when its length is another one
\* the call fails with the length-mismatch message that names n and the
\* length, no element is fetched and no output of the tuple is written.
C13_TupleLength ==
  PositionalCall =>
    \A i \in AtTuplePosition :
      LET a == call.args[i + 1]
          n == TupleArity(call.site, i)
          len == PySequence_Size(a)
      IN (PySequence_Check(a) /\ ~PyBytes_Check(a) /\ ReachesItem(i)) =>
           IF len = n
             THEN /\ FetchedFrom(a)
                  /\ cx.err.text # "must be sequence of length %d, not %d"
                  /\ cx.ret = 1 => ~TupleOutputsUnwritten(i)
             ELSE /\ cx.ret = 0
                  /\ LengthMismatch(n, len)
                  /\ cx.err.a = i + 1
                  /\ ~FetchedFrom(a)
                  /\ TupleOutputsUnwritten(i)

\* "(ii)" against a tuple of three: expected length 2, got 3
C13_Witness ==
  /\ PositionalCall
  /\ Sites[call.site].format = <<"(", "i", "i", ")">>
  /\ call.args = <<"T3">>
  /\ cx.ret = 0
  /\ LengthMismatch(2, 3)
  /\ cx.out = <<>>

\* "(ii)" against a tuple of two integers: both bound
C13_BothBound ==
  /\ PositionalCall
  /\ Sites[call.site].format = <<"(", "i", "i", ")">>
  /\ call.args = <<"TII">>
  /\ cx.ret = 1
  /\ Written(1) /\ Written(2)

(***************************************************************************)
(* Malformed descriptors                                                   *)
(***************************************************************************)
Count(f, c) == Cardinality({j \in DOMAIN f : f[j] = c})

\* the nesting depth after the first j characters of f
Depth(f, j) ==
  Cardinality({k \in 1 .. j : f[k] = "("}) - Cardinality({k \in 1 .. j : f[k] = ")"})

UnmatchedParen(f) ==
  \/ Depth(f, Len(f)) # 0
  \/ \E j \in 1 .. Len(f) : Depth(f, j) < 0

DollarBeforeBar(f) ==
  \E j, k \in DOMAIN f : j < k /\ f[j] = "$" /\ f[k] = "|"

EmptyNameAfterName(kwlist) ==
  \E j, k \in DOMAIN kwlist : j < k /\ kwlist[j] # "" /\ kwlist[k] = ""

Malformed(site) ==
  \/ UnmatchedParen(Sites[site].format)
  \/ Count(Sites[site].format, "|") > 1
  \/ Count(Sites[site].format, "$") > 1
  \/ DollarBeforeBar(Sites[site].format)
  \/ EmptyNameAfterName(Sites[site].kwlist)

\* C14: a call through any entry point with a malformed descriptor aborts
\* the process; it never returns to its caller.
C14_MalformedAborts ==
  (pc # "idle" /\ Malformed(call.site)) => pc = "aborted"

\* what the code does: on the keyword paths such a call returns 0 with a
\* SystemError pending, or returns 1
C14_ReturnsSystemError ==
  /\ KeywordCall
  /\ Malformed(call.site)
  /\ cx.ret = 0
  /\ cx.err.type = "SystemError"

C14_SilentlyAccepted ==
  /\ PositionalCall
  /\ Count(Sites[call.site].format, "|") > 1
  /\ cx.ret = 1

C14_PositionalAbort ==
  /\ pc = "aborted"
  /\ call.entry = "PyArg_ParseTuple"
  /\ UnmatchedParen(Sites[call.site].format)

(***************************************************************************)
(* The path of a failing element                                           *)
(***************************************************************************)
\* the descriptors made of 'i', 'C' and parentheses only
PathSite(site) ==
  \A j \in DOMAIN Sites[site].format : Sites[site].format[j] \in {"i", "C", "(", ")"}

\* the values the codes 'i' and 'C' accept
Accepts(c, o) ==
  IF c = "i" THEN Kind(o) = "int" /\ ObjInfo[o].val <= INT_MAX /\ ObjInfo[o].val >= INT_MIN
  ELSE Kind(o) = "str" /\ ObjInfo[o].len = 1

\* The one-based indices, outermost first, that lead to the first element of
\* o that the tuple spec opening before fp does not accept (<<>>: none), and
\* whether that element is refused by an exception of the conversion itself
\* (code 'i') instead of a message handed to seterror.
RECURSIVE FailPath(_, _, _, _)
FailPath(o, f, fp, k) ==
  IF k > ObjInfo[o].len THEN [path |-> <<>>, raised |-> FALSE]
  ELSE LET e == ObjInfo[o].items[k]
           next == skipitem(f, fp, 0, FALSE).fp
       IN IF At(f, fp) = "("
            THEN IF Kind(e) # "tuple" \/ ObjInfo[e].len # CountTupleItems(f, fp + 1, 0, 0)
                   THEN [path |-> <<k>>, raised |-> FALSE]
                   ELSE LET sub == FailPath(e, f, fp + 1, 1) IN
                        IF sub.path # <<>>
                          THEN [path |-> <<k>> \o sub.path, raised |-> sub.raised]
                          ELSE FailPath(o, f, next, k + 1)
            ELSE IF ~Accepts(At(f, fp), e)
                   THEN [path |-> <<k>>, raised |-> At(f, fp) = "i"]
                   ELSE FailPath(o, f, next, k + 1)

\* the failing path inside the value of top-level item i
PathIn(i) ==
  FailPath(call.args[i + 1], Sites[call.site].format,
           ItemPos(Sites[call.site].format, 1, i) + 1, 1)

NestedFailure(i) ==
  /\ Kind(call.args[i + 1]) = "tuple"
  /\ ObjInfo[call.args[i + 1]].len = TupleArity(call.site, i)
  /\ ReachesItem(i)
  /\ PathIn(i).path # <<>>
  /\ ~PathIn(i).raised

\* C15: when an element inside nested tuples is refused, the error names the
\* one-based number of the top-level argument and then the one-based index
\* of the failing element at each nesting level, outermost first.
C15_OneBasedPath ==
  (PositionalCall /\ PathSite(call.site)) =>
    \A i \in AtTuplePosition :
      NestedFailure(i) =>
        /\ cx.ret = 0
        /\ cx.err.a = i + 1
        /\ cx.err.path = PathIn(i).path

\* C15 (amended): the error names the one-based number of the top-level
\* argument and then the zero-based index of the failing element at each
\* nesting level, outermost first ('argument 2, item 0' for the first element
\* of the second argument).
C15_ZeroBasedItems ==
  (PositionalCall /\ PathSite(call.site)) =>
    \A i \in AtTuplePosition :
      NestedFailure(i) =>
        /\ cx.ret = 0
        /\ cx.err.a = i + 1
        /\ cx.err.path = [k \in DOMAIN PathIn(i).path |-> PathIn(i).path[k] - 1]

\* the second element of the first element of the second argument fails
C15_TwoLevels ==
  /\ PositionalCall
  /\ PathSite(call.site)
  /\ call.args = <<"I5", "TN">>
  /\ NestedFailure(1)
  /\ PathIn(1).path = <<1, 2>>
  /\ cx.err.path = <<0, 1>>

(***************************************************************************)
(* Numeric codes                                                           *)
(***************************************************************************)
Checked == {"b", "h", "i", "l", "L", "n"}

Bitfields == {"B", "H", "I", "k", "K"}

\* the width in bits of the target of a numeric code
BitsOf(c) ==
  CASE c \in {"b", "B"} -> CharBits
    [] c \in {"h", "H"} -> ShortBits
    [] c \in {"i", "I"} -> IntBits
    [] OTHER -> LongBits

\* v is a value of the target of code c: of the unsigned type for 'b', of the
\* signed type for the other checked codes, of either for a bitfield
Fits(c, v) ==
  CASE c = "b" -> v >= 0 /\ v <= 2 ^ BitsOf(c) - 1
    [] c \in Checked -> v >= 0 - 2 ^ (BitsOf(c) - 1) /\ v <= 2 ^ (BitsOf(c) - 1) - 1
    [] OTHER -> v >= 0 - 2 ^ (BitsOf(c) - 1) /\ v <= 2 ^ BitsOf(c) - 1

\* a call that gives one int, by position, to a descriptor of one numeric code
NumericCall(codes) ==
  /\ Returned
  /\ Sites[call.site].format \in {<<c>> : c \in codes}
  /\ Len(call.args) = 1
  /\ DOMAIN call.kw = {}
  /\ call.args[1] \in AllObjs
  /\ Kind(call.args[1]) = "int"

CodeOf(site) == Sites[site].format[1]

Refused ==
  /\ cx.ret = 0
  /\ cx.err.type = "OverflowError"
  /\ ~Written(1)

\* C16: every numeric code is range-checked: a value that does not fit the
\* target makes the item fail with an overflow error and leaves the output
\* unwritten, for 'b', 'h', 'i', 'l', 'L', 'n' and for 'B', 'H', 'I', 'k', 'K'.
C16_RangeChecked ==
  NumericCall(Checked \cup Bitfields) =>
    (~Fits(CodeOf(call.site), ObjInfo[call.args[1]].val) => Refused)

\* C16 (amended): 'b', 'h', 'i', 'l', 'L', 'n' are range-checked: a value that
\* does not fit fails the item with an overflow error and leaves the output
\* unwritten, a value that fits is stored as it is.  'B', 'H', 'I', 'k', 'K'
\* never fail on an int: they store its low bits.
C16_CheckedOrMasked ==
  /\ NumericCall(Checked) =>
        IF Fits(CodeOf(call.site), ObjInfo[call.args[1]].val)
          THEN cx.ret = 1 /\ Written(1) /\ cx.out[1].v = ObjInfo[call.args[1]].val
          ELSE Refused
  /\ NumericCall(Bitfields) =>
        /\ cx.ret = 1
        /\ Written(1)
        /\ cx.out[1].v = ObjInfo[call.args[1]].val % 2 ^ BitsOf(CodeOf(call.site))

\* a bitfield code stored the low bits of a value that does not fit
C16_Masked ==
  /\ NumericCall({"B"})
  /\ call.args[1] = "IOVER"
  /\ cx.ret = 1
  /\ cx.out[1].v = 0

\* a checked code refused a value that does not fit
C16_Refused ==
  /\ NumericCall({"l"})
  /\ call.args[1] = "IBIG"
  /\ Refused

(***************************************************************************)
(* Embedded terminators                                                    *)
(***************************************************************************)
TextCodes == {"s", "z", "u", "Z"}

\* the values code c takes: str for the text codes (bytes-like too with '#'
\* after 's' and 'z'), bytes for 'y'
Takes(c, hash, o) ==
  CASE c \in {"s", "z"} -> Kind(o) = "str" \/ (hash /\ Kind(o) = "bytes")
    [] c \in {"u", "Z"} -> Kind(o) = "str"
    [] OTHER -> Kind(o) = "bytes"

\* a call that gives one value with an embedded terminator, by position, to
\* a descriptor of one string code
TerminatorCall(hash) ==
  /\ Returned
  /\ Sites[call.site].format \in
        {IF hash THEN <<c, "#">> ELSE <<c>> : c \in TextCodes \cup {"y"}}
  /\ Len(call.args) = 1
  /\ DOMAIN call.kw = {}
  /\ call.args[1] \in AllObjs
  /\ ObjInfo[call.args[1]].nul
  /\ Takes(CodeOf(call.site), hash, call.args[1])

\* C17: a value with an embedded terminator fails 's', 'z', 'y', 'u', 'Z'
\* with a ValueError "embedded null ..."; 's#', 'z#', 'y#', 'u#', 'Z#' accept
\* it and store its full length.
C17_EmbeddedNull ==
  /\ TerminatorCall(FALSE) =>
        /\ cx.ret = 0
        /\ cx.err.type = "ValueError"
        /\ cx.err.text \in {"embedded null character", "embedded null byte"}
  /\ TerminatorCall(TRUE) =>
        /\ cx.ret = 1
        /\ Written(1)
        /\ cx.out[1].obj = call.args[1]
        /\ Written(2)
        /\ cx.out[2].v = ObjInfo[call.args[1]].len

C17_Witness ==
  /\ TerminatorCall(FALSE)
  /\ CodeOf(call.site) = "u"
  /\ cx.err.type = "ValueError"

C17_LengthStored ==
  /\ TerminatorCall(TRUE)
  /\ CodeOf(call.site) = "y"
  /\ cx.out[2].v = 3

(***************************************************************************)
(* Custom converters                                                       *)
(***************************************************************************)
\* a call that gives two values, by position, to "O&i"
ConverterCall ==
  /\ Returned
  /\ Sites[call.site].conv # "none"
  /\ Len(call.args) = 2
  /\ DOMAIN call.kw = {}

\* the calls of the converter on a value, and those with a null object
Conversions == {j \in DOMAIN cx.convcalls : cx.convcalls[j].arg # NullObj}

Releases == {j \in DOMAIN cx.convcalls : cx.convcalls[j].arg = NullObj}

\* C18: "O&" calls the converter exactly once on the input; a zero result
\* fails the item; a cleanup entry for the output address is registered iff
\* the converter returned Py_CLEANUP_SUPPORTED: when a later item fails the
\* converter is called once more, with a null object and that address, and
\* a converter that returned plain success is not called again.
C18_Converter ==
  ConverterCall =>
    /\ Conversions = {1}
    /\ cx.convcalls[1] = [arg |-> call.args[1], addr |-> 2]
    /\ IF Kind(call.args[1]) # "int"
         THEN /\ cx.ret = 0
              /\ ~Written(3)
              /\ Releases = {}
         ELSE /\ cx.ret = (IF Kind(call.args[2]) = "int" THEN 1 ELSE 0)
              /\ Releases =
                   (IF cx.ret = 0 /\ Sites[call.site].conv = "cleanup" THEN {2} ELSE {})
              /\ \A j \in Releases : cx.convcalls[j].addr = 2
              /\ (\E j \in DOMAIN cx.fl : cx.fl[j] = [item |-> 2, destructor |-> "converter"])
                   <=> Sites[call.site].conv = "cleanup"

\* the converter returned Py_CLEANUP_SUPPORTED, the next item failed, and the
\* converter was called again with a null object
C18_Witness ==
  /\ ConverterCall
  /\ Sites[call.site].conv = "cleanup"
  /\ call.args = <<"I5", "SAB">>
  /\ cx.ret = 0
  /\ cx.convcalls = <<[arg |-> "I5", addr |-> 2], [arg |-> NullObj, addr |-> 2]>>

(***************************************************************************)
(* Errors of user-level code                                               *)
(***************************************************************************)
UserFailure == Returned /\ cx.user # <<>>

\* C19: an error raised by user-level code called during binding (the
\* __getitem__ of a sequence at a nested-tuple position, a custom converter,
\* the getbuffer slot of an exporter) is still the pending error, with its
\* type and message, when the call returns failure.
C19_UserErrorKept ==
  UserFailure => (cx.ret = 0 /\ cx.err = cx.user[1])

\* the error of a custom converter and the error of a getbuffer slot called
\* for "y*" are kept
C19_ConverterErrorKept ==
  (UserFailure /\ (Conversions # {} \/ CodeOf(call.site) = "y")) =>
    (cx.ret = 0 /\ cx.err = cx.user[1])

\* the error of __getitem__ is replaced by the binder's own TypeError
C19_GetitemErrorReplaced ==
  /\ UserFailure
  /\ cx.user[1].text = "raised by __getitem__"
  /\ cx.ret = 0
  /\ cx.err.type = "TypeError"
  /\ cx.err.text = "is not retrievable"

\* the error of a getbuffer slot called for "w*" is replaced as well
C19_GetbufferErrorReplaced ==
  /\ UserFailure
  /\ cx.user[1].text = "raised by bf_getbuffer"
  /\ CodeOf(call.site) = "w"
  /\ cx.ret = 0
  /\ cx.err.type = "TypeError"
  /\ cx.err.text = "read-write bytes-like object"

(***************************************************************************)
(* Positional-only and positional+keyword binding                          *)
(***************************************************************************)
\* what positional+keyword binding does with the descriptor and the values
\* of the current call and no keyword
KeywordBinding(budget) ==
  vgetargskeywords(NewContext(call.site, budget), call.args, EmptyDict,
                   Sites[call.site].format, Sites[call.site].kwlist)

\* C20: for the same descriptor and the same positional values, with no
\* keyword, positional-only binding and positional+keyword binding return
\* the same success flag and write the same values to the same outputs.
C20_SameBinding ==
  (call.entry = "PyArg_ParseTuple" /\ pc \in {"returned", "aborted"}) =>
    \E budget \in Budgets :
      With(KeywordBinding(budget), LAMBDA k :
        /\ k.abort = cx.abort
        /\ k.ret = cx.ret
        /\ k.out = cx.out)

\* what does hold: with a well-formed descriptor and a number of values
\* inside its bounds the two bindings end alike
C20_WellFormedInRange ==
  (call.entry = "PyArg_ParseTuple" /\ pc \in {"returned", "aborted"} /\ ~OutOfRange
     /\ ~Malformed(call.site)) =>
    \E budget \in Budgets :
      With(KeywordBinding(budget), LAMBDA k :
        /\ k.abort = cx.abort
        /\ k.ret = cx.ret
        /\ k.out = cx.out)

\* one value for "i|i|i": positional-only binding fails, positional+keyword
\* binding succeeds
C20_FlagDiffers ==
  /\ PositionalCall
  /\ Sites[call.site].format = <<"i", "|", "i", "|", "i">>
  /\ call.args = <<"I5">>
  /\ cx.ret = 0
  /\ KeywordBinding(NoFail).ret = 1

\* one value for "ii|i": both fail, positional+keyword binding after it wrote
\* the first output
C20_OutputsDiffer ==
  /\ PositionalCall
  /\ call.site = 1
  /\ call.args = <<"I5">>
  /\ cx.ret = 0
  /\ cx.out = <<>>
  /\ KeywordBinding(NoFail).ret = 0
  /\ 1 \in DOMAIN KeywordBinding(NoFail).out

(***************************************************************************)
(* Properties of the handle table and the buffer protocol                  *)
(***************************************************************************)
\* the views that hold a reference on o
Holders(o) == Cardinality({v \in Views : rt.view[v].obj = o})

\* new references handed out for o and not yet released: the module's
\* reference on the list, the caller's references and those of the views
Handed(o) == (IF o = "LST" THEN 1 ELSE 0) + rt.own[o] + Holders(o)

StaleRelease ==
  /\ rt.op.name = "Py_DecRef"
  /\ ~rt.op.was[rt.op.obj].live

GotBuffer == rt.op.name = "PyObject_GetBuffer" /\ rt.rc = 0 /\ rt.fault = ""

ReleasedBuffer == rt.op.name = "PyBuffer_Release" /\ rt.op.obj # NullObj

\* a release of a view whose exporter was dropped by an earlier release
ReleasedAgain ==
  /\ rt.op.name = "PyBuffer_Release"
  /\ rt.op.obj = NullObj
  /\ rt.op.buf # 0

OthersKept(o) ==
  \A x \in ManagedObjs \ {o} : rt.handle[x].count = rt.op.was[x].count

\* C22: a successful PyObject_GetBuffer adds exactly one reference to the
\* exporter's handle and stores the exporter in the view; PyBuffer_Release
\* drops exactly one reference and clears view->obj; releasing the view once
\* more changes no reference count.
C22_BufferReference ==
  /\ GotBuffer =>
       /\ rt.handle[rt.op.obj].count = rt.op.was[rt.op.obj].count + 1
       /\ rt.view[rt.op.view].obj = rt.op.obj
       /\ OthersKept(rt.op.obj)
  /\ (rt.op.name = "PyObject_GetBuffer" /\ rt.rc # 0) =>
       /\ OthersKept(NullObj)
       /\ rt.view[rt.op.view].obj = NullObj
  /\ ReleasedBuffer =>
       /\ rt.handle[rt.op.obj].count = rt.op.was[rt.op.obj].count - 1
       /\ rt.view[rt.op.view].obj = NullObj
       /\ OthersKept(rt.op.obj)
  /\ (rt.op.name = "PyBuffer_Release" /\ rt.op.obj = NullObj) =>
       /\ OthersKept(NullObj)
       /\ rt.view[rt.op.view].obj = NullObj

\* a view is released a second time while the caller still holds the array
\* and the other view holds it too
C22_Witness ==
  /\ ReleasedAgain
  /\ rt.own["ARR"] > 0
  /\ \E v \in Views : rt.view[v].obj = "ARR"

ReleasedArrayView == ReleasedBuffer /\ rt.op.obj = "ARR"

\* C23: after PyBuffer_Release of a view of the array, the flat copy the view
\* pointed to is no longer allocated and the cache slot of the array's handle
\* no longer refers to it.
C23_CopyFreedByRelease ==
  ReleasedArrayView =>
    /\ rt.op.buf \notin rt.heap
    /\ rt.handle["ARR"].cache # rt.op.buf

\* the copy goes with the handle: once the last reference is released the
\* copy is not allocated any more
C23_CopyFreedWithHandle ==
  (ReleasedArrayView /\ ~rt.handle["ARR"].live) => rt.op.buf \notin rt.heap

\* the base pointer of every view of the array that is not yet released
\* points to allocated memory
ArrayViewsValid ==
  \A v \in Views : rt.view[v].obj = "ARR" => rt.view[v].buf \in rt.heap

\* the cache slot of every handle is empty or refers to allocated memory
CacheValid ==
  \A o \in ManagedObjs : rt.handle[o].cache \in rt.heap \cup {0}

\* C30: a view of the array keeps a valid base pointer until its own
\* PyBuffer_Release, whatever other PyObject_GetBuffer calls are made on the
\* handle, and no cache slot ever refers to freed memory, also after a
\* PyObject_GetBuffer whose allocation failed; no block is freed twice.
C30_ArrayViewValid ==
  /\ ArrayViewsValid
  /\ CacheValid
  /\ rt.fault = ""

\* C30 (first half): the base pointers of the array's views stay valid
C30_ViewsValid == ArrayViewsValid

\* C30 (second half): the cache slots never dangle
C30_CacheNeverDangles == CacheValid /\ rt.fault = ""

\* the views and the cache of the bytes object, whose copy is made once
C30_BytesViewsValid ==
  /\ \A v \in Views : rt.view[v].obj = "BYT" => rt.view[v].buf \in rt.heap
  /\ rt.handle["BYT"].cache \in rt.heap \cup {0}

(***************************************************************************)
(* Properties of the length queries and of addition                        *)
(***************************************************************************)
LengthQuery == rt.op.name \in LengthEntries

\* the operand's __len__ returned the integer n
LenReturned(n) == LengthQuery /\ rt.op.l.kind = "len" /\ rt.op.l.v = n

Pending(type) == rt.err.type = type

\* C24: a length query returns -1 with ValueError when __len__ returns a
\* negative integer, -1 with OverflowError when the integer does not fit
\* Py_ssize_t, and otherwise the very integer __len__ returned.
C24_LengthRange ==
  \A n \in LenValues :
    LenReturned(n) =>
      /\ n < 0 => rt.rc = 0 - 1 /\ Pending("ValueError")
      /\ n > LONG_MAX => rt.rc = 0 - 1 /\ Pending("OverflowError")
      /\ (n >= 0 /\ n <= LONG_MAX) => rt.rc = n /\ Pending("none")

\* a length one past the largest index is refused
C24_Witness ==
  /\ LenReturned(LONG_MAX + 1)
  /\ rt.op.name = "PySequence_Size"
  /\ rt.rc = 0 - 1
  /\ Pending("OverflowError")

HasNoLen == rt.err = Err("TypeError", "object has no len()", 0, 0)

\* C25: in a length query "object has no len()" is raised exactly when the
\* operand's type has no __len__; when __len__ raises, the query returns -1
\* and the error __len__ raised stays pending as it is.
C25_NoLenOnlyOnMiss ==
  (LengthQuery /\ rt.op.l.kind # "null") =>
    /\ HasNoLen <=> rt.op.l.kind = "missing"
    /\ rt.op.l.kind = "missing" => rt.rc = 0 - 1 /\ rt.managed = <<>>
    /\ rt.op.l.kind = "raises" =>
         /\ rt.rc = 0 - 1
         /\ rt.err = Err("UserError", "raised by __len__", 0, 0)

\* __len__ raised during PyMapping_Length
C25_Witness ==
  /\ rt.op.name = "PyMapping_Length"
  /\ rt.op.l.kind = "raises"
  /\ rt.managed = <<"__len__">>
  /\ Pending("UserError")

Addition == rt.op.name \in {"PyNumber_Add", "PyNumber_InPlaceAdd"}

BothSmall == rt.op.l.kind = "smallint" /\ rt.op.r.kind = "smallint"

\* the name under which the general path calls the operator
OperatorOf(name) == IF name = "PyNumber_Add" THEN "add" ELSE "iadd"

\* what the general path returns for the operands of the last call
General == doBinaryOp(rt, OperatorOf(rt.op.name), rt.op.l, rt.op.r)

\* C26: for two immediate small integers PyNumber_Add and
\* PyNumber_InPlaceAdd return a new reference to the exact sum, make no
\* managed call, and agree with the general path; for any other pair the
\* general path is taken.
C26_SmallIntAdd ==
  Addition =>
    /\ BothSmall =>
         /\ rt.ret # NullObj
         /\ rt.val.v = rt.op.l.v + rt.op.r.v
         /\ rt.val = General.val
         /\ rt.managed = <<>>
         /\ Pending("none")
    /\ ~BothSmall =>
         /\ rt.managed = <<OperatorOf(rt.op.name)>>
         /\ rt.ret = General.ret
         /\ rt.val = General.val

\* the sum of the two largest immediates leaves the immediate range
C26_Witness ==
  /\ rt.op.name = "PyNumber_InPlaceAdd"
  /\ rt.op.l.v = MaxSmallInt
  /\ rt.op.r.v = MaxSmallInt
  /\ rt.val = [kind |-> "largeint", v |-> 2 * MaxSmallInt]
  /\ rt.managed = <<>>

(***************************************************************************)
(* Keyword-only items, the cached parser and the cleanup list              *)
(***************************************************************************)
HasDollar(site) == Count(Sites[site].format, "$") = 1

\* the number of items declared before '$' in a descriptor of one-letter items
BeforeDollar(site) ==
  LET f == Sites[site].format
      d == CHOOSE j \in DOMAIN f : f[j] = "$"
  IN Cardinality({j \in 1 .. d - 1 : f[j] # "|"})

TooManyPositionals ==
  /\ KeywordCall
  /\ HasDollar(call.site)
  /\ ~Malformed(call.site)
  /\ Len(call.args) > BeforeDollar(call.site)

PositionalLimitTexts ==
  {"Function takes at most positional arguments",
   "Function takes exactly positional arguments"}

TotalGiven == Len(call.args) + Cardinality(DOMAIN call.kw)

\* the positional values of the items before '$' are ints that fit
PositionalsConvert ==
  \A j \in 1 .. BeforeDollar(call.site) : Accepts("i", call.args[j])

Compat == call.entry = "PyArg_ParseTupleAndKeywords"

\* the compat path says "exactly" when the descriptor has no '|'; the cached
\* parser, whose min is never left unset, always says "at most"
PositionalLimit ==
  /\ cx.err.type = "TypeError"
  /\ cx.err.text = IF Compat /\ Count(Sites[call.site].format, "|") = 0
                     THEN "Function takes exactly positional arguments"
                     ELSE "Function takes at most positional arguments"
  /\ cx.err.a = BeforeDollar(call.site)
  /\ cx.err.b = Len(call.args)

\* an output of an item declared after '$' is written only when the item's
\* name is among the keywords
KeywordOnlyBound ==
  \A r \in OutputsOf(call.site) :
    (r.item >= BeforeDollar(call.site) /\ Written(r.slot))
      => Sites[call.site].kwlist[r.item + 1] \in DOMAIN call.kw

Reparsed(budget) ==
  vgetargskeywords(NewContext(call.site, budget), call.args, call.kw,
                   Sites[call.site].format, Sites[call.site].kwlist)

CachedCall ==
  /\ pc \in {"returned", "aborted"}
  /\ call.entry = "PyArg_ParseTupleAndKeywordsFast"
  /\ ~Malformed(call.site)
  /\ MaxOf(call.site) = Len(Sites[call.site].kwlist)

\* parserInit run on the parser record a first run left behind
InitTwice(site) ==
  With(ParserOf(site), LAMBDA p1 :
    With(parserInit(p1.cx, Sites[site].format, Sites[site].kwlist), LAMBDA p2 :
      /\ p2.ok = p1.ok
      /\ p2.pos = p1.pos
      /\ p2.min = p1.min
      /\ p2.max = p1.max))

\* C28 as stated: for a well-formed descriptor and keyword table and the
\* same values, the cached-parser path and the re-parse path return the same
\* flag and bind the same items, and a second parserInit yields the same
\* pos, min and max.
C28_SamePaths ==
  CachedCall =>
    /\ \E budget \in Sites[call.site].budgets :
         With(Reparsed(budget), LAMBDA k :
           /\ k.abort = cx.abort
           /\ k.ret = cx.ret
           /\ k.out = cx.out)
    /\ InitTwice(call.site)

\* without the code "w*" the flags agree, a successful call binds the same
\* items, and a second parserInit yields the same pos, min and max
C28_SameWithoutWritable ==
  (CachedCall /\ Count(Sites[call.site].format, "w") = 0) =>
    /\ \E budget \in Sites[call.site].budgets :
         With(Reparsed(budget), LAMBDA k :
           /\ k.abort = cx.abort
           /\ k.ret = cx.ret
           /\ cx.ret = 1 => k.out = cx.out)
    /\ InitTwice(call.site)

\* "w*" with a writable buffer: refused by the cached parser, bound by the
\* re-parse path
C28_WritableDiffers ==
  /\ CachedCall
  /\ Sites[call.site].format = <<"w", "*">>
  /\ call.args = <<"WB">>
  /\ cx.ret = 0
  /\ cx.err.type = "SystemError"
  /\ Reparsed(NoFail).ret = 1

\* C29: a binding call never registers more cleanup entries than the entries
\* array holds, and is never aborted for writing past it.
C29_CleanupWithinCapacity ==
  pc \in {"returned", "aborted"} =>
    /\ Len(cx.fl) <= cx.capacity
    /\ cx.abort # "write past the cleanup entries"

\* with at most as many resource items as static entries, or with a heap
\* array, the entries fit
C29_TopLevelFits ==
  (pc \in {"returned", "aborted"} /\ Sites[call.site].format # ManyBuffers)
    => Len(cx.fl) <= cx.capacity

====
